---- MODULE Spec2Model ----
(***************************************************************************)
(* Model of the resilient external-process core of claude-flow:            *)
(*   - runCommand / classifyError   (src/src/cli/utils.js)                 *)
(*   - ExternalCLIProvider          (src/src/providers/                    *)
(*                                   external-cli-provider.ts)             *)
(* A child process is modelled by the events Node delivers for it: 'data'  *)
(* on stdout/stderr, 'error' when the spawn fails, 'close' with the exit   *)
(* code (null when the child was terminated by a signal).                  *)
(***************************************************************************)
EXTENDS Integers, Sequences, FiniteSets

\* ------------------------------------------------------------------ bounds
MaxRetries == 2
MaxChunks == 2
MaxTime == 1
MaxArgs == 3
MaxAttempts == 3

\* ------------------------------------------------- JavaScript value domain
\* Values of mixed type (number | string | null | undefined) are tagged.
Num(n) == [t |-> "num", n |-> n]
Str(s) == [t |-> "str", s |-> s]
Null == [t |-> "null"]
Undef == [t |-> "undef"]

IsInteger(v) == v.t = "num"

\* ToBoolean for the tagged values
Truthy(v) ==
  CASE v.t = "num" -> v.n # 0
    [] v.t = "str" -> v.s # ""
    [] OTHER -> FALSE

\* a || b
Or(a, b) == IF Truthy(a) THEN a ELSE b

\* Text (stdout, stderr, messages) is a sequence of characters.
Chars == {"a", " "}
Chunks == {<<"a">>, <<" ">>}
Empty == << >>

\* ------------------------------------------------------------ classifyError
networkCodes ==
  {Str("ENOTFOUND"), Str("EAI_AGAIN"), Str("ECONNREFUSED"),
   Str("ECONNRESET"), Str("ETIMEDOUT")}

fsCodesWithoutEMFILE == {Str("ENOENT"), Str("EACCES"), Str("EISDIR")}

fsCodes == {Str("ENOENT"), Str("EACCES"), Str("EISDIR"), Str("EMFILE")}

classifyError(err) ==
  IF err.code \in networkCodes THEN "network"
  ELSE IF err.code \in fsCodes THEN "filesystem"
  ELSE "general"

\* Error objects the 'error' event can carry: every listed code, one code
\* outside both lists, and an error without a code.
ErrCodes ==
  {Str("ENOTFOUND"), Str("EAI_AGAIN"), Str("ECONNREFUSED"), Str("ECONNRESET"),
   Str("ETIMEDOUT"), Str("ENOENT"), Str("EACCES"), Str("EISDIR"), Str("EMFILE"),
   Str("EPERM"), Undef}
ErrMessage(c) == IF c.t = "str" THEN <<"spawn ", c.s>> ELSE <<"spawn failed">>
MkErr(c) == [code |-> c, message |-> ErrMessage(c)]
AllErrs == {MkErr(c) : c \in ErrCodes}
\* Errors a spawn of the model fails with: two codes of each list, one code
\* of neither list, and an error without a code.
SpawnErrCodes ==
  {Str("ENOTFOUND"), Str("ETIMEDOUT"), Str("ENOENT"), Str("EMFILE"),
   Str("EPERM"), Undef}
Errs == {MkErr(c) : c \in SpawnErrCodes}
NoErr == [code |-> Undef, message |-> Empty]

\* Exit codes a 'close' event can carry; null = terminated by a signal.
ExitCodes == {Num(0), Num(1), Num(2), Null}
\* A failed spawn closes with the negative errno as its code.
FailedSpawnCloseCode == Num(-2)

\* ----------------------------------------------------------------- state
VARIABLES
  rcPc,        \* position of the runCommand call
  rcRetries,   \* options.retries
  rcAttempt,   \* let attempt
  rcResult,    \* let result
  rcReturned,  \* value the call returned (Undef while running)
  rcChildren,  \* one record per spawn of this call, in spawn order
  rcTrace      \* history: "spawn" per spawn(), "wait" per setTimeout(r, 500)

VARIABLES
  clsLog       \* classifyError: the <<code, classification>> pairs returned so far

rcVars == <<rcPc, rcRetries, rcAttempt, rcResult, rcReturned, rcChildren, rcTrace>>

VARIABLES
  pCalls,      \* ExternalCLIProvider: one record per doComplete call
  pNow         \* the clock read by Date.now(), in milliseconds

VARIABLES
  pAdapter,    \* the adapter's lifecycle: its state and the initialize() call
  pHealth      \* the value the last doHealthCheck() call returned, if any

clsVars == <<clsLog>>

pVars == <<pCalls, pNow>>

aVars == <<pAdapter, pHealth>>

VARIABLES
  pfCall,      \* parseFlags: the arguments of a call and the value it returned
  rtCall,      \* retry: the position, attempt counter and history of a call
  mcpCall      \* callRuvSwarmMCP: the position and intermediate values of a call

uVars == <<pfCall, rtCall, mcpCall>>

vars == <<rcVars, clsVars, pVars, aVars, uVars>>


\* ------------------------------------------------------------- runCommand
BackoffMs == 500

\* The child created by attemptRun together with the closure state of its
\* promise: stdout/stderr accumulators, whether resolve() was already called
\* and with which value.  outChunks / errChunks are the chunks the child has
\* emitted on each stream, in arrival order.
NewChild(fails, e) ==
  [fails |-> fails, err |-> e, errored |-> FALSE, closed |-> FALSE,
   exit |-> Undef, stdout |-> Empty, stderr |-> Empty, nout |-> 0, nerr |-> 0,
   settled |-> FALSE, result |-> Undef,
   outChunks |-> << >>, errChunks |-> << >>]

SpawnOutcomes == {NewChild(FALSE, NoErr)} \cup {NewChild(TRUE, e) : e \in Errs}

\* resolve(v): only the first call settles the promise.
ResolveLastWins(c, v) == [c EXCEPT !.settled = TRUE, !.result = v]

Resolve(c, v) == IF c.settled THEN c ELSE [c EXCEPT !.settled = TRUE, !.result = v]

CloseResultAlwaysSuccess(c, code) ==
  [success |-> TRUE, code |-> Or(code, Num(0)),
   stdout |-> c.stdout, stderr |-> c.stderr, errorType |-> Undef]

CloseResult(c, code) ==
  [success |-> (code = Num(0)), code |-> Or(code, Num(0)),
   stdout |-> c.stdout, stderr |-> c.stderr, errorType |-> Undef]

ErrorResult(err) ==
  [success |-> FALSE, code |-> Or(err.code, Num(-1)),
   stdout |-> Empty, stderr |-> err.message,
   errorType |-> Str(classifyError(err))]

RetryableNetworkOnly(result) == result.errorType = Str("network")

RetryableAnyFailure(result) == TRUE

Retryable(result) ==
  result.errorType = Str("network") \/ result.errorType = Str("filesystem")

BudgetLeftOffByOne(attempt, retries) == attempt <= retries

BudgetLeft(attempt, retries) == attempt < retries

\* attemptRun(): spawn(command, args, ...) and register the handlers.
AttemptRun(c) ==
  /\ rcChildren' = Append(rcChildren, c)
  /\ rcTrace' = Append(rcTrace, [op |-> "spawn"])

RunCommand(r, c) ==
  /\ rcPc = "idle"
  /\ rcRetries' = r
  /\ rcAttempt' = 0
  /\ AttemptRun(c)
  /\ rcPc' = "await"
  /\ UNCHANGED <<rcResult, rcReturned>>

RcStdoutDataOverwrites(i, d) ==
  /\ i \in 1..Len(rcChildren)
  /\ ~rcChildren[i].fails /\ ~rcChildren[i].closed
  /\ rcChildren[i].nout < MaxChunks
  /\ rcChildren' = [rcChildren EXCEPT ![i].stdout = d, ![i].nout = @ + 1,
                                      ![i].outChunks = Append(@, d)]
  /\ UNCHANGED <<rcPc, rcRetries, rcAttempt, rcResult, rcReturned, rcTrace>>

RcStdoutData(i, d) ==
  /\ i \in 1..Len(rcChildren)
  /\ ~rcChildren[i].fails /\ ~rcChildren[i].closed
  /\ rcChildren[i].nout < MaxChunks
  /\ rcChildren' = [rcChildren EXCEPT ![i].stdout = @ \o d, ![i].nout = @ + 1,
                                      ![i].outChunks = Append(@, d)]
  /\ UNCHANGED <<rcPc, rcRetries, rcAttempt, rcResult, rcReturned, rcTrace>>

RcStderrData(i, d) ==
  /\ i \in 1..Len(rcChildren)
  /\ ~rcChildren[i].fails /\ ~rcChildren[i].closed
  /\ rcChildren[i].nerr < MaxChunks
  /\ rcChildren' = [rcChildren EXCEPT ![i].stderr = @ \o d, ![i].nerr = @ + 1,
                                      ![i].errChunks = Append(@, d)]
  /\ UNCHANGED <<rcPc, rcRetries, rcAttempt, rcResult, rcReturned, rcTrace>>

RcChildClose(i, code) ==
  /\ i \in 1..Len(rcChildren)
  /\ ~rcChildren[i].closed
  /\ IF rcChildren[i].fails
       THEN rcChildren[i].errored /\ code = FailedSpawnCloseCode
       ELSE code \in ExitCodes
  /\ rcChildren' = [rcChildren EXCEPT
       ![i] = [Resolve(@, CloseResult(@, code)) EXCEPT
                 !.closed = TRUE, !.exit = code]]
  /\ UNCHANGED <<rcPc, rcRetries, rcAttempt, rcResult, rcReturned, rcTrace>>

RcChildError(i) ==
  /\ i \in 1..Len(rcChildren)
  /\ rcChildren[i].fails /\ ~rcChildren[i].errored
  /\ rcChildren' = [rcChildren EXCEPT
       ![i] = [Resolve(@, ErrorResult(@.err)) EXCEPT !.errored = TRUE]]
  /\ UNCHANGED <<rcPc, rcRetries, rcAttempt, rcResult, rcReturned, rcTrace>>

\* result = await attemptRun(); ... the body of the do-loop after the await.
RcResume ==
  /\ rcPc = "await"
  /\ rcChildren[Len(rcChildren)].settled
  /\ LET result == rcChildren[Len(rcChildren)].result IN
       /\ rcResult' = result
       /\ IF result.success
            THEN /\ rcPc' = "done" /\ rcReturned' = result
                 /\ UNCHANGED rcTrace
            ELSE IF BudgetLeft(rcAttempt, rcRetries) /\ Retryable(result)
              THEN /\ rcPc' = "backoff" /\ rcTrace' = Append(rcTrace, [op |-> "wait", ms |-> BackoffMs])
                   /\ UNCHANGED rcReturned
              ELSE /\ rcPc' = "done" /\ rcReturned' = result
                   /\ UNCHANGED rcTrace
  /\ UNCHANGED <<rcRetries, rcAttempt, rcChildren>>

RcBackoffFireNoIncrement(c) ==
  /\ rcPc = "backoff"
  /\ AttemptRun(c)
  /\ rcPc' = "await"
  /\ UNCHANGED <<rcRetries, rcAttempt, rcResult, rcReturned>>

\* The 500 ms timer fires: attempt++, the while test, and the next attemptRun.
RcBackoffFire(c) ==
  /\ rcPc = "backoff"
  /\ rcAttempt' = rcAttempt + 1
  /\ IF rcAttempt + 1 <= rcRetries
       THEN /\ AttemptRun(c) /\ rcPc' = "await" /\ UNCHANGED rcReturned
       ELSE /\ rcPc' = "done" /\ rcReturned' = rcResult
            /\ UNCHANGED <<rcChildren, rcTrace>>
  /\ UNCHANGED <<rcRetries, rcResult>>

RcInit ==
  /\ rcPc = "idle"
  /\ rcRetries = 0
  /\ rcAttempt = 0
  /\ rcResult = Undef
  /\ rcReturned = Undef
  /\ rcChildren = << >>
  /\ rcTrace = << >>

\* ------------------------------------------------------ ExternalCLIProvider
\* String.prototype.trim
WhiteSpace == {" ", "\n"}

RECURSIVE TrimStart(_)
TrimStart(s) ==
  IF s # Empty /\ Head(s) \in WhiteSpace THEN TrimStart(Tail(s)) ELSE s

RECURSIVE TrimEnd(_)
TrimEnd(s) ==
  IF s # Empty /\ s[Len(s)] \in WhiteSpace
    THEN TrimEnd(SubSeq(s, 1, Len(s) - 1)) ELSE s

Trim(s) == TrimEnd(TrimStart(s))

\* Array.prototype.join('\n') over the lines of the prompt
RECURSIVE Join(_)
Join(lines) ==
  IF lines = << >> THEN Empty
  ELSE IF Len(lines) = 1 THEN lines[1]
  ELSE lines[1] \o <<"\n">> \o Join(Tail(lines))

LineNoSpace(m) == <<m.role, ":">> \o m.content

\* `${m.role}: ${m.content}`
Line(m) == <<m.role, ":", " ">> \o m.content

Prompt(request) ==
  Join([k \in 1..Len(request.messages) |-> Line(request.messages[k])])

\* The provider under test: new ExternalCLIProvider('codex-cli', {config: {model: 'codex'}, ...})
ProviderName == "codex-cli"
ConfigModel == Str("codex")

Msg(role, content) == [role |-> role, content |-> content]
Requests ==
  {[messages |-> << >>, model |-> Undef],
   [messages |-> <<Msg("user", <<"a">>)>>, model |-> Str("m1")],
   [messages |-> <<Msg("system", <<" ">>), Msg("user", <<"a", " ">>)>>, model |-> Undef]}

Calls == {1, 2}
\* The call followed when one call runs alone.
SoloCalls == {1}

\* A doComplete / doStreamComplete call before it is made.  spawns counts
\* the spawn() calls of the call; gen and events are the position of the
\* async generator of doStreamComplete and the events it has yielded.
IdleCall ==
  [pc |-> "idle", request |-> Undef, stdin |-> Undef, stdinEnded |-> FALSE,
   spawns |-> 0, child |-> Undef,
   promise |-> "pending", value |-> Undef, outcome |-> Undef,
   gen |-> "none", events |-> << >>]

\* spawn(this.command, [], { shell: true }) and its out / err accumulators.
NewProviderChild(fails, e) ==
  [fails |-> fails, err |-> e, errored |-> FALSE, closed |-> FALSE,
   exit |-> Undef, args |-> << >>, out |-> Empty, errText |-> Empty,
   nout |-> 0, nerr |-> 0, echo |-> FALSE]

\* The wrapped command of the test, `cat`: it writes its standard input to
\* its standard output and exits with code 0.
CatChild == [NewProviderChild(FALSE, NoErr) EXCEPT !.echo = TRUE]

ProviderSpawnOutcomes ==
  {NewProviderChild(FALSE, NoErr), CatChild}
    \cup {NewProviderChild(TRUE, e) : e \in Errs}

\* resolve(v) / reject(e): only the first call settles the promise.
SettleLastWins(call, how, v) == [call EXCEPT !.promise = how, !.value = v]

Settle(call, how, v) ==
  IF call.promise # "pending" THEN call
  ELSE [call EXCEPT !.promise = how, !.value = v]

\* if (code !== 0 && err)
ToolFailedOnAnyNonZero(code, err) == code # Num(0)

ToolFailedOnTrimmedText(code, err) == code # Num(0) /\ Trim(err) # Empty

ToolFailed(code, err) == code # Num(0) /\ err # Empty

LLMResponse(request, stdout, now) ==
  [id |-> <<"cli-", now>>,
   model |-> Or(request.model, ConfigModel),
   provider |-> ProviderName,
   content |-> stdout,
   usage |-> [promptTokens |-> 0, completionTokens |-> 0, totalTokens |-> 0]]

\* doComplete up to its await: build the prompt, spawn, register the
\* handlers, child.stdin.end(prompt).
StartedCallStdinLeftOpen(request, c) ==
  [IdleCall EXCEPT !.pc = "await", !.request = request, !.spawns = 1,
                   !.child = c, !.stdin = Prompt(request)]

StartedCall(request, c) ==
  [IdleCall EXCEPT !.pc = "await", !.request = request, !.spawns = 1,
                   !.child = c, !.stdin = Prompt(request),
                   !.stdinEnded = TRUE]

Started(call) == call.pc \in {"await", "returned", "threw"}

DoComplete(i, request, c) ==
  /\ pCalls[i].pc = "idle"
  /\ pCalls' = [pCalls EXCEPT ![i] = StartedCall(request, c)]
  /\ UNCHANGED pNow

\* doStreamComplete up to its await: the generator body starts with
\* await this.doComplete(request).
DoStreamComplete(i, request, c) ==
  /\ pCalls[i].pc = "idle"
  /\ pCalls' = [pCalls EXCEPT ![i] =
       [StartedCall(request, c) EXCEPT !.gen = "running"]]
  /\ UNCHANGED pNow

PStdoutDataResolves(i, d) ==
  /\ Started(pCalls[i])
  /\ ~pCalls[i].child.fails /\ ~pCalls[i].child.closed /\ ~pCalls[i].child.echo
  /\ pCalls[i].child.nout < MaxChunks
  /\ LET call == pCalls[i] IN
     pCalls' = [pCalls EXCEPT ![i] =
       [(IF call.promise # "pending" THEN call
         ELSE [call EXCEPT !.promise = "resolved", !.value = call.child.out \o d])
          EXCEPT !.child.out = @ \o d, !.child.nout = @ + 1]]
  /\ UNCHANGED pNow

PStdoutData(i, d) ==
  /\ Started(pCalls[i])
  /\ ~pCalls[i].child.fails /\ ~pCalls[i].child.closed /\ ~pCalls[i].child.echo
  /\ pCalls[i].child.nout < MaxChunks
  /\ pCalls' = [pCalls EXCEPT ![i].child.out = @ \o d, ![i].child.nout = @ + 1]
  /\ UNCHANGED pNow

\* cat writes the next n characters of what it read on stdin.
PCatEcho(i, n) ==
  /\ Started(pCalls[i])
  /\ pCalls[i].child.echo /\ ~pCalls[i].child.closed
  /\ n >= 1 /\ Len(pCalls[i].child.out) + n <= Len(pCalls[i].stdin)
  /\ LET call == pCalls[i] IN
     pCalls' = [pCalls EXCEPT ![i].child.out =
       @ \o SubSeq(call.stdin, Len(@) + 1, Len(@) + n)]
  /\ UNCHANGED pNow

PStderrData(i, d) ==
  /\ Started(pCalls[i])
  /\ ~pCalls[i].child.fails /\ ~pCalls[i].child.closed /\ ~pCalls[i].child.echo
  /\ pCalls[i].child.nerr < MaxChunks
  /\ pCalls' = [pCalls EXCEPT ![i].child.errText = @ \o d, ![i].child.nerr = @ + 1]
  /\ UNCHANGED pNow

\* child.on('error', (e) => reject(e))
PChildErrorResolves(i) ==
  /\ Started(pCalls[i])
  /\ pCalls[i].child.fails /\ ~pCalls[i].child.errored
  /\ pCalls' = [pCalls EXCEPT ![i] =
       [Settle(@, "resolved", Empty) EXCEPT !.child.errored = TRUE]]
  /\ UNCHANGED pNow

PChildError(i) ==
  /\ Started(pCalls[i])
  /\ pCalls[i].child.fails /\ ~pCalls[i].child.errored
  /\ pCalls' = [pCalls EXCEPT ![i] =
       [Settle(@, "rejected", [kind |-> "spawn", err |-> @.child.err])
          EXCEPT !.child.errored = TRUE]]
  /\ UNCHANGED pNow

\* child.on('close', (code) => ...)
PChildCloseShared(i, code) ==
  /\ Started(pCalls[i])
  /\ ~pCalls[i].child.closed
  /\ IF pCalls[i].child.fails
       THEN pCalls[i].child.errored /\ code = FailedSpawnCloseCode
       ELSE IF pCalls[i].child.echo
         THEN pCalls[i].child.out = pCalls[i].stdin /\ code = Num(0)
         ELSE code \in ExitCodes
  /\ LET failed == ToolFailed(code, pCalls[i].child.errText)
         how == IF failed THEN "rejected" ELSE "resolved"
         v == IF failed
                THEN [kind |-> "Error", message |-> Trim(pCalls[i].child.errText)]
                ELSE Trim(pCalls[i].child.out)
     IN pCalls' = [j \in Calls |->
          IF j = i
            THEN [Settle(pCalls[j], how, v) EXCEPT !.child.closed = TRUE, !.child.exit = code]
            ELSE IF Started(pCalls[j]) THEN Settle(pCalls[j], how, v) ELSE pCalls[j]]
  /\ UNCHANGED pNow

PChildClose(i, code) ==
  /\ Started(pCalls[i])
  /\ ~pCalls[i].child.closed
  /\ IF pCalls[i].child.fails
       THEN pCalls[i].child.errored /\ code = FailedSpawnCloseCode
       ELSE IF pCalls[i].child.echo
         THEN pCalls[i].child.out = pCalls[i].stdin /\ code = Num(0)
         ELSE code \in ExitCodes
  /\ pCalls' = [pCalls EXCEPT ![i] =
       [(IF ToolFailed(code, @.child.errText)
           THEN Settle(@, "rejected",
                       [kind |-> "Error", message |-> Trim(@.child.errText)])
           ELSE Settle(@, "resolved", Trim(@.child.out)))
          EXCEPT !.child.closed = TRUE, !.child.exit = code]]
  /\ UNCHANGED pNow

\* const stdout = await ...; return { id: `cli-${Date.now()}`, ... }  or the
\* rejection propagating out of doComplete.
PResume(i) ==
  /\ pCalls[i].pc = "await"
  /\ pCalls[i].promise # "pending"
  /\ LET call == pCalls[i] IN
     pCalls' = [pCalls EXCEPT ![i] =
       IF call.promise = "resolved"
         THEN [call EXCEPT !.pc = "returned",
                           !.outcome = LLMResponse(call.request, call.value, pNow)]
         ELSE [call EXCEPT !.pc = "threw", !.outcome = call.value]]
  /\ UNCHANGED pNow

\* yield { type: 'content', delta: { content: resp.content }, usage: resp.usage }
ContentEventEmptyDelta(resp) ==
  [type |-> "content", delta |-> [content |-> Empty], usage |-> resp.usage]

ContentEvent(resp) ==
  [type |-> "content", delta |-> [content |-> resp.content], usage |-> resp.usage]

\* yield { type: 'done' }
DoneEvent == [type |-> "done"]

\* The await of doComplete returned resp: the generator yields the content
\* event to the consumer's first next().
SYieldContent(i) ==
  /\ pCalls[i].gen = "running" /\ pCalls[i].pc = "returned"
  /\ pCalls' = [pCalls EXCEPT ![i].gen = "yielded content",
                               ![i].events = Append(@, ContentEvent(pCalls[i].outcome))]
  /\ UNCHANGED pNow

SYieldDoneSkipped(i) ==
  /\ pCalls[i].gen = "yielded content"
  /\ pCalls' = [pCalls EXCEPT ![i].gen = "completed"]
  /\ UNCHANGED pNow

\* The consumer's second next(): the generator yields the done event.
SYieldDone(i) ==
  /\ pCalls[i].gen = "yielded content"
  /\ pCalls' = [pCalls EXCEPT ![i].gen = "yielded done",
                               ![i].events = Append(@, DoneEvent)]
  /\ UNCHANGED pNow

\* The consumer's third next(): the generator body ends.
SReturn(i) ==
  /\ pCalls[i].gen = "yielded done"
  /\ pCalls' = [pCalls EXCEPT ![i].gen = "completed"]
  /\ UNCHANGED pNow

\* The await of doComplete threw: the generator ends with that error.
SThrow(i) ==
  /\ pCalls[i].gen = "running" /\ pCalls[i].pc = "threw"
  /\ pCalls' = [pCalls EXCEPT ![i].gen = "threw"]
  /\ UNCHANGED pNow

Tick ==
  /\ pNow < MaxTime
  /\ pNow' = pNow + 1
  /\ UNCHANGED pCalls

PInit ==
  /\ pCalls = [i \in Calls |-> IdleCall]
  /\ pNow = 0

\* ------------------------------------------------- the adapter's lifecycle
\* doInitialize is in the source; the public initialize / complete /
\* streamComplete wrappers of the base class are not, and follow the
\* specification: Uninitialized -> Initialized -> (per call) Busy ->
\* Initialized, Initialized being required before a call.
NewAdapter ==
  [state |-> "Uninitialized", initPc |-> "idle", probeSpawns |-> 0,
   probe |-> Undef, promise |-> "pending", error |-> Undef]

\* spawn(this.command, ['--version'], { shell: true })
NewProbe(fails, e) ==
  [fails |-> fails, err |-> e, errored |-> FALSE, closed |-> FALSE,
   exit |-> Undef, args |-> <<"--version">>]

ProbeOutcomes == {NewProbe(FALSE, NoErr)} \cup {NewProbe(TRUE, e) : e \in Errs}

\* resolve() / reject() of the promise doInitialize awaits
SettleInit(a, how) == IF a.promise # "pending" THEN a ELSE [a EXCEPT !.promise = how]

DoInitialize(c) ==
  /\ pAdapter.initPc = "idle"
  /\ pAdapter' = [pAdapter EXCEPT !.initPc = "await", !.probe = c,
                                  !.probeSpawns = @ + 1]
  /\ UNCHANGED <<pVars, pHealth>>

IProbeCloseRejectsNonZero(code) ==
  /\ pAdapter.initPc # "idle" /\ ~pAdapter.probe.closed
  /\ IF pAdapter.probe.fails
       THEN pAdapter.probe.errored /\ code = FailedSpawnCloseCode
       ELSE code \in ExitCodes
  /\ pAdapter' = [SettleInit(pAdapter, IF code = Num(0) THEN "resolved" ELSE "rejected")
                    EXCEPT !.probe.closed = TRUE, !.probe.exit = code]
  /\ UNCHANGED <<pVars, pHealth>>

\* child.on('close', () => resolve())
IProbeClose(code) ==
  /\ pAdapter.initPc # "idle" /\ ~pAdapter.probe.closed
  /\ IF pAdapter.probe.fails
       THEN pAdapter.probe.errored /\ code = FailedSpawnCloseCode
       ELSE code \in ExitCodes
  /\ pAdapter' = [SettleInit(pAdapter, "resolved")
                    EXCEPT !.probe.closed = TRUE, !.probe.exit = code]
  /\ UNCHANGED <<pVars, pHealth>>

IProbeErrorRejects ==
  /\ pAdapter.initPc # "idle"
  /\ pAdapter.probe.fails /\ ~pAdapter.probe.errored
  /\ pAdapter' = [SettleInit(pAdapter, "rejected") EXCEPT !.probe.errored = TRUE]
  /\ UNCHANGED <<pVars, pHealth>>

\* child.on('error', () => resolve())
IProbeError ==
  /\ pAdapter.initPc # "idle"
  /\ pAdapter.probe.fails /\ ~pAdapter.probe.errored
  /\ pAdapter' = [SettleInit(pAdapter, "resolved") EXCEPT !.probe.errored = TRUE]
  /\ UNCHANGED <<pVars, pHealth>>

\* initialize() after doInitialize settled: the adapter becomes Initialized,
\* or initialize fails with a HealthCheckError when doInitialize rejected.
InitializeReturn ==
  /\ pAdapter.initPc = "await" /\ pAdapter.promise # "pending"
  /\ pAdapter' =
       IF pAdapter.promise = "resolved"
         THEN [pAdapter EXCEPT !.initPc = "done", !.state = "Initialized"]
         ELSE [pAdapter EXCEPT !.initPc = "failed",
                               !.error = [kind |-> "HealthCheckError"]]
  /\ UNCHANGED <<pVars, pHealth>>

\* Initialized is required before complete / streamComplete are callable.
CallableAlways(state) == TRUE

Callable(state) == state = "Initialized"

\* complete(request): refused without a spawn unless the adapter is
\* Initialized, doComplete otherwise.
Complete(i, request, c) ==
  /\ pCalls[i].pc = "idle"
  /\ pCalls' = [pCalls EXCEPT ![i] =
       IF Callable(pAdapter.state) THEN StartedCall(request, c)
       ELSE [IdleCall EXCEPT !.pc = "refused"]]
  /\ UNCHANGED <<pNow, pAdapter, pHealth>>

\* streamComplete(request): likewise, doStreamComplete when Initialized.
StreamComplete(i, request, c) ==
  /\ pCalls[i].pc = "idle"
  /\ pCalls' = [pCalls EXCEPT ![i] =
       IF Callable(pAdapter.state)
         THEN [StartedCall(request, c) EXCEPT !.gen = "running"]
         ELSE [IdleCall EXCEPT !.pc = "refused"]]
  /\ UNCHANGED <<pNow, pAdapter, pHealth>>

\* The situation a health check is made in: the lifecycle state, whether a
\* complete call is in flight and whether one has failed.
Situation ==
  [state |-> pAdapter.state,
   inFlight |-> \E i \in Calls : pCalls[i].pc = "await",
   failed |-> \E i \in Calls : pCalls[i].pc = "threw"]

\* async doHealthCheck() { return { ok: true }; }
DoHealthCheckWhenInitialized ==
  /\ pHealth' = [ok |-> pAdapter.state = "Initialized", at |-> Situation]
  /\ UNCHANGED <<pVars, pAdapter>>

DoHealthCheck ==
  /\ pHealth' = [ok |-> TRUE, at |-> Situation]
  /\ UNCHANGED <<pVars, pAdapter>>

AInit == pAdapter = NewAdapter /\ pHealth = Undef

\* ---------------------------------------------------------------- parseFlags
\* Command-line tokens are sequences of characters; a flag's value is the
\* boolean true, a text or, after the type validation, a number.
True == [t |-> "bool", b |-> TRUE]
Text(s) == [t |-> "text", s |-> s]
NaN == [t |-> "nan"]

StartsWith(s, prefix) ==
  Len(s) >= Len(prefix) /\ SubSeq(s, 1, Len(prefix)) = prefix
Includes(s, x) == \E k \in 1..Len(s) : s[k] = x

\* Number(value) of a text made of an optional sign and decimal digits (the
\* tokens of the model hold no blank, point, exponent or radix prefix).
RECURSIVE DecimalValue(_)
DecimalValue(ds) ==
  IF ds = << >> THEN 0
  ELSE 10 * DecimalValue(SubSeq(ds, 1, Len(ds) - 1))
         + (CHOOSE n \in 0..9 :
              <<"0", "1", "2", "3", "4", "5", "6", "7", "8", "9">>[n + 1] = ds[Len(ds)])
IsDigit(x) == x \in {"0", "1", "2", "3", "4", "5", "6", "7", "8", "9"}
JsNumber(s) ==
  LET AllDigits(ds) == ds # << >> /\ \A k \in 1..Len(ds) : IsDigit(ds[k])
  IN IF s = << >> THEN Num(0)
     ELSE IF AllDigits(s) THEN Num(DecimalValue(s))
     ELSE IF s[1] = "-" /\ AllDigits(Tail(s)) THEN Num(0 - DecimalValue(Tail(s)))
     ELSE IF s[1] = "+" /\ AllDigits(Tail(s)) THEN Num(DecimalValue(Tail(s)))
     ELSE NaN

\* flags[key] = value: the flags object is the sequence of its entries in
\* insertion order; assigning an existing key keeps its place.
SetFlag(flags, key, value) ==
  IF \E k \in 1..Len(flags) : flags[k].key = key
    THEN [k \in 1..Len(flags) |->
            IF flags[k].key = key THEN [key |-> key, value |-> value] ELSE flags[k]]
    ELSE Append(flags, [key |-> key, value |-> value])

\* known.length && !known.includes(name)
Unknown(known, name) == known # << >> /\ ~Includes(known, name)

\* arg.substring(2).split(/=(.*)/s): the name before the first '=' and the
\* value after it, true when that is empty.
EqualsPartsAtLastEquals(rest) ==
  LET eq == CHOOSE k \in 1..Len(rest) :
              rest[k] = "=" /\ \A j \in (k + 1)..Len(rest) : rest[j] # "="
      after == SubSeq(rest, eq + 1, Len(rest))
  IN [flagName |-> SubSeq(rest, 1, eq - 1),
      value |-> IF after = << >> THEN True ELSE Text(after)]

EqualsParts(rest) ==
  LET eq == CHOOSE k \in 1..Len(rest) :
              rest[k] = "=" /\ \A j \in 1..(k - 1) : rest[j] # "="
      after == SubSeq(rest, eq + 1, Len(rest))
  IN [flagName |-> SubSeq(rest, 1, eq - 1),
      value |-> IF after = << >> THEN True ELSE Text(after)]

\* nextArg && (!nextArg.startsWith('-') || /^-?\d/.test(nextArg)); nextArg is
\* undefined after the last argument.
TakesNextUnlessDash(nextArg) ==
  /\ nextArg # Undef /\ nextArg.s # << >>
  /\ ~StartsWith(nextArg.s, <<"-">>)

TakesNext(nextArg) ==
  /\ nextArg # Undef /\ nextArg.s # << >>
  /\ \/ ~StartsWith(nextArg.s, <<"-">>)
     \/ IsDigit(nextArg.s[1])
     \/ Len(nextArg.s) >= 2 /\ nextArg.s[1] = "-" /\ IsDigit(nextArg.s[2])

\* for (const flag of shortFlags) { ...; flags[flag] = true; }
RECURSIVE ShortFlags(_, _, _)
ShortFlags(shortFlags, known, acc) ==
  IF shortFlags = << >> THEN acc
  ELSE LET flag == <<shortFlags[1]>> IN
    ShortFlags(Tail(shortFlags), known,
      [acc EXCEPT
         !.unknownFlags = IF Unknown(known, flag) THEN Append(@, <<"-">> \o flag) ELSE @,
         !.flags = SetFlag(@, flag, True)])

\* for (let i = 0; i < args.length; i++) { ... }, i counted from 1.
RECURSIVE ParseArgs(_, _, _, _)
ParseArgs(args, i, known, acc) ==
  IF i > Len(args) THEN acc
  ELSE LET arg == args[i] IN
    IF StartsWith(arg, <<"-", "-">>)
      THEN LET rest == SubSeq(arg, 3, Len(arg))
               nextArg == IF i + 1 <= Len(args) THEN Text(args[i + 1]) ELSE Undef
               takes == ~Includes(arg, "=") /\ TakesNext(nextArg)
               parts == IF Includes(arg, "=") THEN EqualsParts(rest)
                        ELSE [flagName |-> rest,
                              value |-> IF takes THEN nextArg ELSE True]
           IN ParseArgs(args, IF takes THEN i + 2 ELSE i + 1, known,
                [acc EXCEPT
                   !.unknownFlags = IF Unknown(known, parts.flagName)
                                      THEN Append(@, <<"-", "-">> \o parts.flagName)
                                      ELSE @,
                   !.flags = SetFlag(@, parts.flagName, parts.value)])
    ELSE IF StartsWith(arg, <<"-">>) /\ Len(arg) > 1
      THEN ParseArgs(args, i + 1, known, ShortFlags(Tail(arg), known, acc))
    ELSE ParseArgs(args, i + 1, known, [acc EXCEPT !.args = Append(@, arg)])

\* Object.entries(flags): integer-like keys come first, the other keys in
\* insertion order (the tokens of the model hold one digit, so at most one
\* integer-like key).
Entries(flags) ==
  LET IsIndex(e) == JsNumber(e.key).t = "num" /\ e.key # << >> /\ e.key[1] \notin {"-", "+"}
      NotIndex(e) == ~IsIndex(e)
  IN SelectSeq(flags, IsIndex) \o SelectSeq(flags, NotIndex)

\* The type validation of the parsed flags.
RECURSIVE Validate(_, _, _)
Validate(entries, options, acc) ==
  IF entries = << >> THEN acc
  ELSE LET key == entries[1].key
           value == entries[1].value
           error(kind) == <<"Flag --", key, " expects a ", kind, " value">>
           next ==
             IF Includes(options.boolean, key)
               THEN IF value.t = "bool" THEN acc
                    ELSE IF value.s = <<"t", "r", "u", "e">>
                      THEN [acc EXCEPT !.flags = SetFlag(@, key, True)]
                    ELSE IF value.s = <<"f", "a", "l", "s", "e">>
                      THEN [acc EXCEPT !.flags = SetFlag(@, key, [t |-> "bool", b |-> FALSE])]
                    ELSE [acc EXCEPT !.errors = Append(@, error("boolean"))]
             ELSE IF Includes(options.number, key)
               THEN IF value = True \/ JsNumber(value.s) = NaN
                      THEN [acc EXCEPT !.errors = Append(@, error("numeric"))]
                      ELSE [acc EXCEPT !.flags = SetFlag(@, key, JsNumber(value.s))]
             ELSE IF Includes(options.string, key)
               THEN IF value = True
                      THEN [acc EXCEPT !.errors = Append(@, error("string"))]
                      ELSE [acc EXCEPT !.flags = SetFlag(@, key, Text(value.s))]
             ELSE acc
       IN Validate(Tail(entries), options, next)

parseFlags(args, options) ==
  LET parsed == ParseArgs(args, 1, options.known,
                  [flags |-> << >>, args |-> << >>, unknownFlags |-> << >>,
                   errors |-> << >>])
  IN Validate(Entries(parsed.flags), options, parsed)

\* The option lists of a call: none (the default), the typed flags of the
\* tests, and known / boolean lists.
NoOptions == [known |-> << >>, boolean |-> << >>, number |-> << >>, string |-> << >>]
FlagOptions ==
  {NoOptions,
   [NoOptions EXCEPT !.number = <<<<"p">>>>, !.string = <<<<"n">>>>],
   [NoOptions EXCEPT !.known = <<<<"p">>>>, !.boolean = <<<<"n">>>>, !.string = <<<<"p">>>>]}

\* The tokens of the model: positional values, short flags, long flags with
\* and without '=', the empty string and the lone dashes.
Tokens ==
  {<< >>, <<"v">>, <<"5">>, <<"-">>, <<"-", "5">>, <<"-", "n">>,
   <<"-", "-">>, <<"-", "-", "p">>, <<"-", "-", "n">>,
   <<"-", "-", "p", "=">>, <<"-", "-", "p", "=", "5">>,
   <<"-", "-", "n", "=", "v">>, <<"-", "-", "n", "=", "v", "=", "5">>}
ArgLists == UNION {[1..n -> Tokens] : n \in 0..MaxArgs}

ParseFlags ==
  /\ pfCall.result = Undef
  /\ pfCall' = [pfCall EXCEPT !.result = parseFlags(pfCall.args, pfCall.options)]
  /\ UNCHANGED <<rtCall, mcpCall>>

PfInit == pfCall = [args |-> << >>, options |-> NoOptions, result |-> Undef]

\* --------------------------------------------------------------------- retry
\* retry(fn, maxAttempts, delay): pc is the position of the call, log the
\* settled calls of fn and the sleeps started, in order.
IdleRetry ==
  [pc |-> "idle", maxAttempts |-> 0, delay |-> 0, attempt |-> 0, calls |-> 0,
   log |-> << >>, outcome |-> Undef]

\* What fn resolves to or throws, and the delays passed.
FnValues == {"v1", "v2"}
FnErrors == {"e1", "e2"}
Delays == {1000, 250, 0}

\* sleep(delay * attempt)
SleepMsConstant(delay, attempt) == delay

SleepMs(delay, attempt) == delay * attempt

\* The call up to its first await: attempt = 1, the loop test, fn().
Retry(maxAttempts, delay) ==
  /\ rtCall.pc = "idle"
  /\ rtCall' =
       IF 1 <= maxAttempts
         THEN [rtCall EXCEPT !.pc = "calling", !.maxAttempts = maxAttempts,
                             !.delay = delay, !.attempt = 1, !.calls = 1]
         ELSE [rtCall EXCEPT !.pc = "returned", !.maxAttempts = maxAttempts,
                             !.delay = delay, !.attempt = 1]
  /\ UNCHANGED <<pfCall, mcpCall>>

\* return await fn();
RtFnReturns(v) ==
  /\ rtCall.pc = "calling"
  /\ rtCall' = [rtCall EXCEPT
       !.pc = "returned", !.outcome = [value |-> v],
       !.log = Append(@, [op |-> "fn", threw |-> FALSE, value |-> v])]
  /\ UNCHANGED <<pfCall, mcpCall>>

\* catch (err) { if (attempt === maxAttempts) throw err; await sleep(...); }
RtFnThrows(e) ==
  /\ rtCall.pc = "calling"
  /\ LET failed == Append(rtCall.log, [op |-> "fn", threw |-> TRUE, value |-> e]) IN
     rtCall' =
       IF rtCall.attempt = rtCall.maxAttempts
         THEN [rtCall EXCEPT !.pc = "threw", !.outcome = [error |-> e], !.log = failed]
         ELSE [rtCall EXCEPT
                 !.pc = "sleeping",
                 !.log = Append(failed, [op |-> "sleep",
                                         ms |-> SleepMs(rtCall.delay, rtCall.attempt)])]
  /\ UNCHANGED <<pfCall, mcpCall>>

\* The sleep's timer fires: attempt++, the loop test, the next fn().
RtSleepEnds ==
  /\ rtCall.pc = "sleeping"
  /\ rtCall' =
       IF rtCall.attempt + 1 <= rtCall.maxAttempts
         THEN [rtCall EXCEPT !.pc = "calling", !.attempt = @ + 1, !.calls = @ + 1]
         ELSE [rtCall EXCEPT !.pc = "returned", !.attempt = @ + 1]
  /\ UNCHANGED <<pfCall, mcpCall>>

RtInit == rtCall = IdleRetry

\* ----------------------------------------------------------- callRuvSwarmMCP
\* A text is a sequence of tokens, a token being a white-space character, a
\* whole JSON document or text that is no JSON.  JSON.parse(text): the value
\* of the document between optional white space, or a SyntaxError.
JsonParse(text) ==
  LET body == Trim(text)
      Parsed(v) == [ok |-> TRUE, value |-> v]
      Content(items) == [result |-> [content |-> [t |-> "array", items |-> items]]]
  IN CASE body = <<"null">> -> Parsed(Null)
       [] body = <<"{}">> -> Parsed([result |-> Undef])
       [] body = <<"{result:{}}">> -> Parsed([result |-> [content |-> Undef]])
       [] body = <<"{result:{content:[]}}">> -> Parsed(Content(<< >>))
       [] body = <<"{result:{content:[{}]}}">> -> Parsed(Content(<<[text |-> Undef]>>))
       [] body = <<"{result:{content:[{text:'oops'}]}}">> ->
            Parsed(Content(<<[text |-> Text(<<"oops">>)]>>))
       [] body = <<"{result:{content:[{text:'{success:false}'}]}}">> ->
            Parsed(Content(<<[text |-> Text(<<"{success:false}">>)]>>))
       [] body = <<"{result:{content:[{text:' {success:true,id:1}'}]}}">> ->
            Parsed(Content(<<[text |-> Text(<<" ", "{success:true,id:1}">>)]>>))
       [] body = <<"{success:false}">> -> Parsed([success |-> FALSE])
       [] body = <<"{success:true,id:1}">> -> Parsed([success |-> TRUE, id |-> 1])
       [] OTHER -> [ok |-> FALSE]

\* What runCommand writes to stdout in the model, bare and between white space.
McpDocuments ==
  {<<"null">>, <<"{}">>, <<"{result:{}}">>, <<"{result:{content:[]}}">>,
   <<"{result:{content:[{}]}}">>, <<"{result:{content:[{text:'oops'}]}}">>,
   <<"{result:{content:[{text:'{success:false}'}]}}">>,
   <<"{result:{content:[{text:' {success:true,id:1}'}]}}">>,
   <<"oops">>}
McpStdouts ==
  {Empty, <<" ", "\n">>} \cup McpDocuments \cup {<<" ">> \o d \o <<"\n">> : d \in McpDocuments}
McpResults ==
  {[success |-> ok, code |-> IF ok THEN Num(0) ELSE Num(1),
    stdout |-> out, stderr |-> Empty, errorType |-> Undef] :
     ok \in BOOLEAN, out \in McpStdouts}
Tools == {"neural_train", "swarm_init"}

\* if (result.success && result.stdout.trim()) { try { ... return toolResult; }
\* catch (parseError) {} }: the tool's result when one is returned.
ToolResult(result) ==
  LET none == [returns |-> FALSE]
      response == JsonParse(Trim(result.stdout))
  IN IF ~(result.success /\ Trim(result.stdout) # Empty) THEN none
     ELSE IF ~response.ok \/ response.value = Null THEN none
     ELSE IF response.value.result = Undef THEN none
     ELSE IF response.value.result.content = Undef THEN none
     ELSE IF response.value.result.content.items = << >> THEN none
     ELSE IF response.value.result.content.items[1].text = Undef THEN none
     ELSE LET toolResult == JsonParse(response.value.result.content.items[1].text.s) IN
       IF toolResult.ok THEN [returns |-> TRUE, value |-> toolResult.value] ELSE none

\* The fallback data returned instead of an error.
Fallback ==
  [success |-> TRUE, adaptation_results |-> "random",
   learned_patterns |-> <<"coordination_efficiency_boost", "agent_selection_optimization",
                          "task_distribution_enhancement">>]

IdleMcp ==
  [pc |-> "idle", tool |-> Undef, step |-> 0, threw |-> {}, result |-> Undef,
   outcome |-> Undef]

\* The awaited steps of the try block, in order.
McpSteps ==
  <<"writeFile request", "writeFile script", "chmod", "runCommand",
    "unlink request", "unlink script">>

\* After the try block fell through, and the outer catch: neural_train goes
\* on with callRuvSwarmDirectNeural, any other tool returns the fallback.
FallThrough(call) ==
  IF call.tool = "neural_train" THEN [call EXCEPT !.pc = "neural"]
  ELSE [call EXCEPT !.pc = "returned", !.outcome = Fallback]

CaughtRethrows(call, what) ==
  [call EXCEPT !.pc = "rejected", !.threw = @ \cup {what}, !.outcome = [error |-> what]]

Caught(call, what) ==
  IF call.tool = "neural_train"
    THEN [call EXCEPT !.pc = "neural", !.threw = @ \cup {what}]
    ELSE [call EXCEPT !.pc = "returned", !.threw = @ \cup {what}, !.outcome = Fallback]

\* The code after the cleanup.
AfterCleanup(call) ==
  IF ToolResult(call.result).returns
    THEN [call EXCEPT !.pc = "returned", !.outcome = ToolResult(call.result).value]
    ELSE FallThrough(call)

\* The call up to its first await; JSON.stringify throws on parameters that
\* cannot be serialized.
CallRuvSwarmMCP(tool, serializable) ==
  /\ mcpCall.pc = "idle"
  /\ mcpCall' =
       IF serializable THEN [mcpCall EXCEPT !.pc = "await", !.tool = tool, !.step = 1]
       ELSE Caught([mcpCall EXCEPT !.tool = tool], "JSON.stringify")
  /\ UNCHANGED <<pfCall, rtCall>>

\* An awaited fs.writeFile / chmod / fs.unlink resolves.
McpFsResolves ==
  /\ mcpCall.pc = "await" /\ McpSteps[mcpCall.step] # "runCommand"
  /\ mcpCall' =
       IF mcpCall.step = Len(McpSteps) THEN AfterCleanup(mcpCall)
       ELSE [mcpCall EXCEPT !.step = @ + 1]
  /\ UNCHANGED <<pfCall, rtCall>>

\* It rejects: the outer catch before runCommand, the inner catch, which
\* ends the cleanup, after it.
McpFsRejects ==
  /\ mcpCall.pc = "await" /\ McpSteps[mcpCall.step] # "runCommand"
  /\ mcpCall' =
       IF mcpCall.result = Undef THEN Caught(mcpCall, McpSteps[mcpCall.step])
       ELSE AfterCleanup([mcpCall EXCEPT !.threw = @ \cup {McpSteps[mcpCall.step]}])
  /\ UNCHANGED <<pfCall, rtCall>>

\* const result = await runCommand('bash', [tempScript], ...)
McpRunResolves(result) ==
  /\ mcpCall.pc = "await" /\ McpSteps[mcpCall.step] = "runCommand"
  /\ mcpCall' = [mcpCall EXCEPT !.result = result, !.step = @ + 1]
  /\ UNCHANGED <<pfCall, rtCall>>

\* return await callRuvSwarmDirectNeural(params), which returns its result
\* or rethrows.
McpNeuralSettles(ok) ==
  /\ mcpCall.pc = "neural"
  /\ mcpCall' =
       IF ok THEN [mcpCall EXCEPT !.pc = "returned", !.outcome = [success |-> TRUE, real |-> TRUE]]
       ELSE [mcpCall EXCEPT !.pc = "rejected", !.outcome = [error |-> "neural"]]
  /\ UNCHANGED <<pfCall, rtCall>>

McpInit == mcpCall = IdleMcp

\* ---------------------------------------------- classifyError, called alone
ClassifyError(err) ==
  /\ clsLog' = clsLog \cup {<<err.code, classifyError(err)>>}
  /\ UNCHANGED <<rcVars, pVars, aVars, uVars>>

ClsInit == clsLog = {}

\* ---------------------------------------------------------- specifications
Init == RcInit /\ ClsInit /\ PInit /\ AInit /\ PfInit /\ RtInit /\ McpInit

\* One runCommand call with every interleaving of its children's events.
Next ==
  \/ \E r \in 0..MaxRetries, c \in SpawnOutcomes :
       RunCommand(r, c) /\ UNCHANGED <<clsVars, pVars, aVars, uVars>>
  \/ \E i \in 1..(MaxRetries + 1), d \in Chunks :
       RcStdoutData(i, d) /\ UNCHANGED <<clsVars, pVars, aVars, uVars>>
  \/ \E i \in 1..(MaxRetries + 1), d \in Chunks :
       RcStderrData(i, d) /\ UNCHANGED <<clsVars, pVars, aVars, uVars>>
  \/ \E i \in 1..(MaxRetries + 1), code \in ExitCodes \cup {FailedSpawnCloseCode} :
       RcChildClose(i, code) /\ UNCHANGED <<clsVars, pVars, aVars, uVars>>
  \/ \E i \in 1..(MaxRetries + 1) : RcChildError(i) /\ UNCHANGED <<clsVars, pVars, aVars, uVars>>
  \/ RcResume /\ UNCHANGED <<clsVars, pVars, aVars, uVars>>
  \/ \E c \in SpawnOutcomes : RcBackoffFire(c) /\ UNCHANGED <<clsVars, pVars, aVars, uVars>>

Spec == Init /\ [][Next]_vars

\* The same call, with one chunk value and one spawn error of each class,
\* when every spawned child eventually emits error or close, every
\* continuation of an await runs and every back-off timer fires.
FairSpawnOutcomes ==
  {NewChild(FALSE, NoErr)} \cup
  {NewChild(TRUE, MkErr(c)) : c \in {Str("ENOTFOUND"), Str("ENOENT"), Str("EPERM")}}
FairChunks == {<<"a">>}
FairCloseCodes == ExitCodes \cup {FailedSpawnCloseCode}

NextFair ==
  \/ \E r \in 0..MaxRetries, c \in FairSpawnOutcomes :
       RunCommand(r, c) /\ UNCHANGED <<clsVars, pVars, aVars, uVars>>
  \/ \E i \in 1..(MaxRetries + 1), d \in FairChunks :
       RcStdoutData(i, d) /\ UNCHANGED <<clsVars, pVars, aVars, uVars>>
  \/ \E i \in 1..(MaxRetries + 1), d \in FairChunks :
       RcStderrData(i, d) /\ UNCHANGED <<clsVars, pVars, aVars, uVars>>
  \/ \E i \in 1..(MaxRetries + 1), code \in FairCloseCodes :
       RcChildClose(i, code) /\ UNCHANGED <<clsVars, pVars, aVars, uVars>>
  \/ \E i \in 1..(MaxRetries + 1) : RcChildError(i) /\ UNCHANGED <<clsVars, pVars, aVars, uVars>>
  \/ RcResume /\ UNCHANGED <<clsVars, pVars, aVars, uVars>>
  \/ \E c \in FairSpawnOutcomes : RcBackoffFire(c) /\ UNCHANGED <<clsVars, pVars, aVars, uVars>>

Fairness ==
  /\ \A i \in 1..(MaxRetries + 1) :
       /\ WF_vars(\E code \in FairCloseCodes :
                    RcChildClose(i, code) /\ UNCHANGED <<clsVars, pVars, aVars, uVars>>)
       /\ WF_vars(RcChildError(i) /\ UNCHANGED <<clsVars, pVars, aVars, uVars>>)
  /\ WF_vars(RcResume /\ UNCHANGED <<clsVars, pVars, aVars, uVars>>)
  /\ WF_vars(\E c \in FairSpawnOutcomes :
               RcBackoffFire(c) /\ UNCHANGED <<clsVars, pVars, aVars, uVars>>)

FairSpec == Init /\ [][NextFair]_vars /\ Fairness

\* classifyError applied to every error object, in any order.
NextClassify == \E err \in AllErrs : ClassifyError(err)

SpecClassify == Init /\ [][NextClassify]_vars

\* ExternalCLIProvider.doComplete calls with every interleaving of the
\* child's events and of the clock.
\* Sizes of the chunks cat may write: up to the whole prompt at once.
CatChunkSizes == UNION {1..Len(Prompt(request)) : request \in Requests}

NextProvider ==
  \/ \E i \in SoloCalls, request \in Requests, c \in ProviderSpawnOutcomes :
       DoComplete(i, request, c) /\ UNCHANGED <<rcVars, clsVars, aVars, uVars>>
  \/ \E i \in SoloCalls, request \in Requests, c \in ProviderSpawnOutcomes :
       DoStreamComplete(i, request, c) /\ UNCHANGED <<rcVars, clsVars, aVars, uVars>>
  \/ \E i \in SoloCalls, d \in Chunks : PStdoutData(i, d) /\ UNCHANGED <<rcVars, clsVars, aVars, uVars>>
  \/ \E i \in SoloCalls, d \in Chunks : PStderrData(i, d) /\ UNCHANGED <<rcVars, clsVars, aVars, uVars>>
  \/ \E i \in SoloCalls, n \in CatChunkSizes : PCatEcho(i, n) /\ UNCHANGED <<rcVars, clsVars, aVars, uVars>>
  \/ \E i \in SoloCalls : PChildError(i) /\ UNCHANGED <<rcVars, clsVars, aVars, uVars>>
  \/ \E i \in SoloCalls, code \in ExitCodes \cup {FailedSpawnCloseCode} :
       PChildClose(i, code) /\ UNCHANGED <<rcVars, clsVars, aVars, uVars>>
  \/ \E i \in SoloCalls : PResume(i) /\ UNCHANGED <<rcVars, clsVars, aVars, uVars>>
  \/ \E i \in SoloCalls : SYieldContent(i) /\ UNCHANGED <<rcVars, clsVars, aVars, uVars>>
  \/ \E i \in SoloCalls : SYieldDone(i) /\ UNCHANGED <<rcVars, clsVars, aVars, uVars>>
  \/ \E i \in SoloCalls : SReturn(i) /\ UNCHANGED <<rcVars, clsVars, aVars, uVars>>
  \/ \E i \in SoloCalls : SThrow(i) /\ UNCHANGED <<rcVars, clsVars, aVars, uVars>>
  \/ Tick /\ UNCHANGED <<rcVars, clsVars, aVars, uVars>>

SpecProvider == Init /\ [][NextProvider]_vars

\* The adapter's lifecycle: initialize() with its probe, and complete /
\* streamComplete calls made before, during or after it.
AdapterRequests == {[messages |-> <<Msg("user", <<"a">>)>>, model |-> Undef]}

NextAdapter ==
  \/ \E c \in ProbeOutcomes : DoInitialize(c) /\ UNCHANGED <<rcVars, clsVars, uVars>>
  \/ \E code \in ExitCodes \cup {FailedSpawnCloseCode} :
       IProbeClose(code) /\ UNCHANGED <<rcVars, clsVars, uVars>>
  \/ IProbeError /\ UNCHANGED <<rcVars, clsVars, uVars>>
  \/ InitializeReturn /\ UNCHANGED <<rcVars, clsVars, uVars>>
  \/ \E i \in SoloCalls, request \in AdapterRequests, c \in ProviderSpawnOutcomes :
       Complete(i, request, c) /\ UNCHANGED <<rcVars, clsVars, uVars>>
  \/ \E i \in SoloCalls, request \in AdapterRequests, c \in ProviderSpawnOutcomes :
       StreamComplete(i, request, c) /\ UNCHANGED <<rcVars, clsVars, uVars>>
  \/ \E i \in SoloCalls, d \in Chunks : PStdoutData(i, d) /\ UNCHANGED <<rcVars, clsVars, aVars, uVars>>
  \/ \E i \in SoloCalls, d \in Chunks : PStderrData(i, d) /\ UNCHANGED <<rcVars, clsVars, aVars, uVars>>
  \/ \E i \in SoloCalls, n \in CatChunkSizes : PCatEcho(i, n) /\ UNCHANGED <<rcVars, clsVars, aVars, uVars>>
  \/ \E i \in SoloCalls : PChildError(i) /\ UNCHANGED <<rcVars, clsVars, aVars, uVars>>
  \/ \E i \in SoloCalls, code \in ExitCodes \cup {FailedSpawnCloseCode} :
       PChildClose(i, code) /\ UNCHANGED <<rcVars, clsVars, aVars, uVars>>
  \/ \E i \in SoloCalls : PResume(i) /\ UNCHANGED <<rcVars, clsVars, aVars, uVars>>
  \/ \E i \in SoloCalls : SYieldContent(i) /\ UNCHANGED <<rcVars, clsVars, aVars, uVars>>
  \/ \E i \in SoloCalls : SYieldDone(i) /\ UNCHANGED <<rcVars, clsVars, aVars, uVars>>
  \/ \E i \in SoloCalls : SReturn(i) /\ UNCHANGED <<rcVars, clsVars, aVars, uVars>>
  \/ \E i \in SoloCalls : SThrow(i) /\ UNCHANGED <<rcVars, clsVars, aVars, uVars>>
  \/ DoHealthCheck /\ UNCHANGED <<rcVars, clsVars, uVars>>

SpecAdapter == Init /\ [][NextAdapter]_vars

\* Two doComplete calls in flight at the same time, each with its own
\* child, with every interleaving of their events and of the clock.
ConcurrentRequests ==
  {[messages |-> << >>, model |-> Undef],
   [messages |-> <<Msg("user", <<"a">>)>>, model |-> Str("m1")]}
ConcurrentSpawnOutcomes ==
  {NewProviderChild(FALSE, NoErr), NewProviderChild(TRUE, MkErr(Str("ENOENT")))}
ConcurrentChunks == {<<"a">>}
ConcurrentExitCodes == {Num(0), Num(1), FailedSpawnCloseCode}

NextConcurrent ==
  \/ \E i \in Calls, request \in ConcurrentRequests, c \in ConcurrentSpawnOutcomes :
       DoComplete(i, request, c) /\ UNCHANGED <<rcVars, clsVars, aVars, uVars>>
  \/ \E i \in Calls, d \in ConcurrentChunks :
       PStdoutData(i, d) /\ UNCHANGED <<rcVars, clsVars, aVars, uVars>>
  \/ \E i \in Calls, d \in ConcurrentChunks :
       PStderrData(i, d) /\ UNCHANGED <<rcVars, clsVars, aVars, uVars>>
  \/ \E i \in Calls : PChildError(i) /\ UNCHANGED <<rcVars, clsVars, aVars, uVars>>
  \/ \E i \in Calls, code \in ConcurrentExitCodes :
       PChildClose(i, code) /\ UNCHANGED <<rcVars, clsVars, aVars, uVars>>
  \/ \E i \in Calls : PResume(i) /\ UNCHANGED <<rcVars, clsVars, aVars, uVars>>
  \/ Tick /\ UNCHANGED <<rcVars, clsVars, aVars, uVars>>

SpecConcurrent == Init /\ [][NextConcurrent]_vars

\* A runCommand call and, once it has returned, a complete call, with one
\* chunk value and one spawn error.
SettleSpawnErr == MkErr(Str("ENOENT"))
SettleChunks == {<<"a">>}
SettleCloseCodes == {Num(0), Num(1), FailedSpawnCloseCode}

NextSettle ==
  \/ \E r \in 0..MaxRetries, c \in {NewChild(FALSE, NoErr), NewChild(TRUE, SettleSpawnErr)} :
       RunCommand(r, c) /\ UNCHANGED <<clsVars, pVars, aVars, uVars>>
  \/ \E i \in 1..(MaxRetries + 1), d \in SettleChunks :
       RcStdoutData(i, d) /\ UNCHANGED <<clsVars, pVars, aVars, uVars>>
  \/ \E i \in 1..(MaxRetries + 1), d \in SettleChunks :
       RcStderrData(i, d) /\ UNCHANGED <<clsVars, pVars, aVars, uVars>>
  \/ \E i \in 1..(MaxRetries + 1), code \in SettleCloseCodes :
       RcChildClose(i, code) /\ UNCHANGED <<clsVars, pVars, aVars, uVars>>
  \/ \E i \in 1..(MaxRetries + 1) : RcChildError(i) /\ UNCHANGED <<clsVars, pVars, aVars, uVars>>
  \/ RcResume /\ UNCHANGED <<clsVars, pVars, aVars, uVars>>
  \/ \E c \in {NewChild(FALSE, NoErr), NewChild(TRUE, SettleSpawnErr)} :
       RcBackoffFire(c) /\ UNCHANGED <<clsVars, pVars, aVars, uVars>>
  \/ \E i \in SoloCalls,
        c \in {NewProviderChild(FALSE, NoErr), NewProviderChild(TRUE, SettleSpawnErr)} :
       /\ rcPc = "done" /\ \A k \in 1..Len(rcChildren) : rcChildren[k].closed
       /\ DoComplete(i, [messages |-> << >>, model |-> Undef], c)
       /\ UNCHANGED <<rcVars, clsVars, aVars, uVars>>
  \/ \E i \in SoloCalls, d \in SettleChunks :
       PStdoutData(i, d) /\ UNCHANGED <<rcVars, clsVars, aVars, uVars>>
  \/ \E i \in SoloCalls, d \in SettleChunks :
       PStderrData(i, d) /\ UNCHANGED <<rcVars, clsVars, aVars, uVars>>
  \/ \E i \in SoloCalls : PChildError(i) /\ UNCHANGED <<rcVars, clsVars, aVars, uVars>>
  \/ \E i \in SoloCalls, code \in SettleCloseCodes :
       PChildClose(i, code) /\ UNCHANGED <<rcVars, clsVars, aVars, uVars>>
  \/ \E i \in SoloCalls : PResume(i) /\ UNCHANGED <<rcVars, clsVars, aVars, uVars>>

SpecSettle == Init /\ [][NextSettle]_vars

\* parseFlags applied to every list of at most MaxArgs tokens under each
\* of the option lists.
InitFlags ==
  /\ RcInit /\ ClsInit /\ PInit /\ AInit /\ RtInit /\ McpInit
  /\ pfCall \in {[args |-> a, options |-> o, result |-> Undef] :
                   a \in ArgLists, o \in FlagOptions}

NextFlags == ParseFlags /\ UNCHANGED <<rcVars, clsVars, pVars, aVars>>

SpecFlags == InitFlags /\ [][NextFlags]_vars

\* One retry call with every outcome of each call of fn.
NextRetry ==
  \/ \E maxAttempts \in 0..MaxAttempts, delay \in Delays :
       Retry(maxAttempts, delay) /\ UNCHANGED <<rcVars, clsVars, pVars, aVars>>
  \/ \E v \in FnValues : RtFnReturns(v) /\ UNCHANGED <<rcVars, clsVars, pVars, aVars>>
  \/ \E e \in FnErrors : RtFnThrows(e) /\ UNCHANGED <<rcVars, clsVars, pVars, aVars>>
  \/ RtSleepEnds /\ UNCHANGED <<rcVars, clsVars, pVars, aVars>>

SpecRetry == Init /\ [][NextRetry]_vars

\* One callRuvSwarmMCP call with every outcome of each of its steps.
NextMcp ==
  \/ \E tool \in Tools, serializable \in BOOLEAN :
       CallRuvSwarmMCP(tool, serializable) /\ UNCHANGED <<rcVars, clsVars, pVars, aVars>>
  \/ McpFsResolves /\ UNCHANGED <<rcVars, clsVars, pVars, aVars>>
  \/ McpFsRejects /\ UNCHANGED <<rcVars, clsVars, pVars, aVars>>
  \/ \E result \in McpResults :
       McpRunResolves(result) /\ UNCHANGED <<rcVars, clsVars, pVars, aVars>>
  \/ \E ok \in BOOLEAN : McpNeuralSettles(ok) /\ UNCHANGED <<rcVars, clsVars, pVars, aVars>>

SpecMcp == Init /\ [][NextMcp]_vars

\* ==================================================================== claims
Last(s) == s[Len(s)]
Spawned == Len(rcChildren)
NetworkOrFilesystem(c) == c.fails /\ c.err.code \in (networkCodes \cup fsCodes)
NonZeroExit(c) == ~c.fails /\ c.closed /\ c.exit.t = "num" /\ c.exit # Num(0)

\* C1: one call of runCommand spawns the command at most retries + 1 times,
\* whatever the outcomes of the attempts are.
C1_AtMostRetriesPlusOneSpawns ==
  rcPc # "idle" => Spawned <= rcRetries + 1

C1_Witness ==
  /\ rcPc = "done" /\ rcRetries >= 1 /\ Spawned = rcRetries + 1
  /\ \E i \in 1..Spawned : rcChildren[i].fails
  /\ ~Last(rcChildren).fails

\* C2: when every attempt ends in a spawn error classified network or
\* filesystem, runCommand spawns exactly retries + 1 times and then returns
\* (as a value) a failed result whose errorType is that classification; the
\* call does not return before the budget is used up.
C2_TransientExhaustsBudget ==
  (rcPc = "done" /\ \A i \in 1..Spawned : NetworkOrFilesystem(rcChildren[i]))
    => /\ Spawned = rcRetries + 1
       /\ rcReturned # Undef
       /\ rcReturned.success = FALSE
       /\ rcReturned.errorType =
            (IF Last(rcChildren).err.code \in networkCodes
               THEN Str("network") ELSE Str("filesystem"))

C2_Witness ==
  /\ rcPc = "done" /\ rcRetries = 2 /\ Spawned = 3
  /\ \A i \in 1..Spawned : rcChildren[i].fails /\ rcChildren[i].err.code \in fsCodes
  /\ rcReturned.errorType = Str("filesystem")

\* C3: an attempt that closes on a non-zero exit code is the last spawn of
\* the call, no back-off wait follows it, and the call returns exactly that
\* attempt's result: success = false, no errorType, stdout and stderr as
\* captured.
C3_NonZeroExitNeverRetried ==
  \A i \in 1..Spawned :
    NonZeroExit(rcChildren[i]) =>
      /\ i = Spawned
      /\ rcPc \in {"await", "done"}
      /\ Last(rcTrace).op = "spawn"
      /\ rcPc = "done" =>
           /\ rcReturned.success = FALSE
           /\ rcReturned.errorType = Undef
           /\ rcReturned.code = rcChildren[i].exit
           /\ rcReturned.stdout = rcChildren[i].stdout
           /\ rcReturned.stderr = rcChildren[i].stderr

C3_Witness ==
  /\ rcPc = "done" /\ rcAttempt < rcRetries
  /\ NonZeroExit(Last(rcChildren))
  /\ Last(rcChildren).stderr # Empty /\ Last(rcChildren).stdout # Empty
  /\ rcReturned.stderr = Last(rcChildren).stderr

\* C4: a failed attempt is followed by another spawn exactly when its
\* errorType is network or filesystem and fewer than retries retries were
\* used; exactly one 500 ms wait separates two spawns; in every other case
\* the failed result is returned with no wait.
C4_RetryIffTransientAndBudget ==
  LET transient(res) == res.errorType \in {Str("network"), Str("filesystem")}
  IN
  \* spawns and waits alternate, every wait is 500 ms
  /\ \A k \in 1..Len(rcTrace) :
       IF k % 2 = 1 THEN rcTrace[k].op = "spawn"
       ELSE rcTrace[k] = [op |-> "wait", ms |-> 500]
  \* an attempt that was followed by another spawn
  /\ \A i \in 1..(Spawned - 1) :
       /\ rcChildren[i].settled /\ ~rcChildren[i].result.success
       /\ transient(rcChildren[i].result)
       /\ i - 1 < rcRetries
  \* a wait is always followed by a spawn
  /\ rcPc = "backoff" =>
       /\ Last(rcTrace).op = "wait" /\ rcAttempt + 1 <= rcRetries
       /\ transient(Last(rcChildren).result)
  \* the call ended: the last attempt was not to be retried, and no wait
  /\ rcPc = "done" =>
       /\ Last(rcTrace).op = "spawn"
       /\ rcReturned = Last(rcChildren).result
       /\ ~(/\ ~rcReturned.success /\ transient(rcReturned)
            /\ Spawned - 1 < rcRetries)

C4_Witness ==
  /\ rcPc = "done" /\ Spawned = 2 /\ rcRetries = 2
  /\ rcReturned.errorType = Str("general")
  /\ rcTrace = <<[op |-> "spawn"], [op |-> "wait", ms |-> 500], [op |-> "spawn"]>>

\* C5: in every result returned by runCommand, success is true exactly when
\* the reported exit code is 0, and the reported exit code is an integer.
C5_SuccessIffCodeZero ==
  rcPc = "done" =>
    /\ rcReturned.success <=> (rcReturned.code = Num(0))
    /\ IsInteger(rcReturned.code)

\* C6 (as stated): whenever some attempt of the call had a spawn error event,
\* the call returns a result with success = false, stderr = the error
\* message and errorType = the classification.
C6_AnySpawnErrorFailsTheCall ==
  rcPc = "done" =>
    \A i \in 1..Spawned :
      rcChildren[i].errored =>
        /\ rcReturned.success = FALSE
        /\ rcReturned.stderr = rcChildren[i].err.message
        /\ rcReturned.errorType # Undef

\* C6 (amended): runCommand never throws because of a spawn failure: every
\* attempt that gets a spawn error event resolves to a result value with
\* success = false, stderr = the error message and errorType = the
\* classification, and the call returns that value when the attempt is its
\* last one.
C6_SpawnErrorIsAValue ==
  LET class(code) == IF code \in networkCodes THEN Str("network")
                     ELSE IF code \in fsCodes THEN Str("filesystem")
                     ELSE Str("general")
      failed(res, err) == /\ res # Undef
                          /\ res.success = FALSE
                          /\ res.stderr = err.message
                          /\ res.errorType = class(err.code)
  IN
  /\ rcPc \in {"idle", "await", "backoff", "done"}
  /\ \A i \in 1..Spawned :
       rcChildren[i].errored =>
         /\ rcChildren[i].settled
         /\ failed(rcChildren[i].result, rcChildren[i].err)
  /\ (rcPc = "done" /\ Last(rcChildren).fails) =>
       failed(rcReturned, Last(rcChildren).err)

C6_Witness ==
  /\ rcPc = "done" /\ Spawned >= 2
  /\ Last(rcChildren).errored /\ Last(rcChildren).closed
  /\ rcReturned.errorType = Str("general")
  /\ rcReturned.stderr = <<"spawn ", "EPERM">>

\* C7: classifyError is total and deterministic: every error code, a missing
\* code included, gets exactly one of network, filesystem, general; network
\* exactly for the five listed codes, filesystem exactly for the four listed
\* codes, general otherwise; the same code always gets the same class.
C7_ClassifyTotalDeterministic ==
  /\ \A p \in clsLog :
       /\ p[2] \in {"network", "filesystem", "general"}
       /\ p[2] = "network" <=>
            p[1] \in {Str("ENOTFOUND"), Str("EAI_AGAIN"), Str("ECONNREFUSED"),
                      Str("ECONNRESET"), Str("ETIMEDOUT")}
       /\ p[2] = "filesystem" <=>
            p[1] \in {Str("ENOENT"), Str("EACCES"), Str("EISDIR"), Str("EMFILE")}
  /\ \A p, q \in clsLog : p[1] = q[1] => p[2] = q[2]

C7_Witness ==
  /\ {p[1] : p \in clsLog} = ErrCodes
  /\ <<Undef, "general">> \in clsLog
  /\ <<Str("EMFILE"), "filesystem">> \in clsLog

\* m is s with leading and trailing whitespace removed
IsTrimOf(m, s) ==
  \E a, b \in 0..Len(s) :
    /\ a + b <= Len(s)
    /\ m = SubSeq(s, a + 1, Len(s) - b)
    /\ \A k \in 1..a : s[k] \in {" ", "\n"}
    /\ \A k \in (Len(s) - b + 1)..Len(s) : s[k] \in {" ", "\n"}
    /\ m # Empty => (m[1] \notin {" ", "\n"} /\ m[Len(m)] \notin {" ", "\n"})

Ended(call) == call.pc \in {"returned", "threw"}
ClosedWith(call) == IF ~call.child.fails /\ call.child.closed THEN call.child.exit ELSE Undef
NonZero(code) == code.t = "num" /\ code # Num(0)

\* C8: a non-zero exit code together with non-empty stderr makes complete
\* fail with the error built from stderr, whose message is the stderr text
\* without leading and trailing whitespace; no Response is produced.
C8_NonZeroWithStderrFails ==
  \A i \in Calls :
    (/\ Ended(pCalls[i]) /\ NonZero(ClosedWith(pCalls[i]))
     /\ pCalls[i].child.errText # Empty)
      => /\ pCalls[i].pc = "threw"
         /\ pCalls[i].outcome.kind = "Error"
         /\ IsTrimOf(pCalls[i].outcome.message, pCalls[i].child.errText)

C8_Witness ==
  \E i \in Calls :
    /\ pCalls[i].pc = "threw"
    /\ pCalls[i].child.exit = Num(1)
    /\ pCalls[i].child.errText = <<" ", "a">>
    /\ pCalls[i].child.out # Empty
    /\ pCalls[i].outcome = [kind |-> "Error", message |-> <<"a">>]

\* C9: a non-zero exit code together with empty stderr makes complete return
\* a Response whose content is the trimmed stdout, also when stdout is
\* empty; exit code 0 returns a Response with the trimmed stdout whatever
\* stderr holds.
C9_PermissiveExitPolicy ==
  \A i \in Calls :
    (/\ Ended(pCalls[i])
     /\ \/ NonZero(ClosedWith(pCalls[i])) /\ pCalls[i].child.errText = Empty
        \/ ClosedWith(pCalls[i]) = Num(0))
      => /\ pCalls[i].pc = "returned"
         /\ IsTrimOf(pCalls[i].outcome.content, pCalls[i].child.out)

C9_Witness ==
  \E i \in Calls :
    /\ pCalls[i].pc = "returned"
    /\ pCalls[i].child.exit = Num(2)
    /\ pCalls[i].child.errText = Empty
    /\ pCalls[i].child.out = Empty
    /\ pCalls[i].outcome.content = Empty

\* C10 (as stated): complete produces a Response if and only if the child
\* exited with code 0 or its captured stdout is non-empty.
C10_ResponseIffExitZeroOrStdout ==
  \A i \in Calls :
    Ended(pCalls[i]) =>
      (pCalls[i].pc = "returned"
         <=> (ClosedWith(pCalls[i]) = Num(0) \/ pCalls[i].child.out # Empty))

\* C10 (amended): complete produces a Response if and only if the child
\* closed without a spawn error and either its exit code is 0 or its
\* captured stderr is empty; the captured stdout plays no part.
C10_ResponseIffExitZeroOrNoStderr ==
  \A i \in Calls :
    Ended(pCalls[i]) =>
      (pCalls[i].pc = "returned"
         <=> /\ ~pCalls[i].child.fails /\ pCalls[i].child.closed
             /\ \/ pCalls[i].child.exit = Num(0)
                \/ pCalls[i].child.errText = Empty)

C10_Witness ==
  \E i \in Calls :
    /\ pCalls[i].pc = "returned"
    /\ pCalls[i].child.exit = Num(1)
    /\ pCalls[i].child.out = Empty /\ pCalls[i].child.errText = Empty

\* The serialization the claims state: one line "<role>: <content>" per
\* message, in request order, joined by newlines (built message by message
\* from the front).
LineOf(m) == <<m.role>> \o <<":", " ">> \o m.content
RECURSIVE Serialized(_, _)
Serialized(messages, k) ==
  IF k = 0 THEN Empty
  ELSE Serialized(messages, k - 1)
         \o (IF k > 1 THEN <<"\n">> ELSE Empty) \o LineOf(messages[k])
Contains(text, part) ==
  \E a \in 0..Len(text) :
    a + Len(part) <= Len(text) /\ SubSeq(text, a + 1, a + Len(part)) = part
ResponseCondition(call) ==
  /\ ~call.child.fails /\ call.child.closed
  /\ call.child.exit = Num(0) \/ call.child.errText = Empty

\* C11 (as stated): every call of complete spawns the command exactly once
\* with zero arguments and writes the whole serialized prompt to its stdin
\* and closes it; for an empty message list the payload is empty and a
\* Response is still returned.
C11_OneSpawnAndEmptyRequestReturns ==
  \A i \in Calls :
    /\ Started(pCalls[i]) =>
         /\ pCalls[i].spawns = 1 /\ pCalls[i].child.args = << >>
         /\ pCalls[i].stdin = Serialized(pCalls[i].request.messages,
                                         Len(pCalls[i].request.messages))
         /\ pCalls[i].stdinEnded
    /\ (Ended(pCalls[i]) /\ pCalls[i].request.messages = << >>) =>
         /\ pCalls[i].stdin = Empty
         /\ pCalls[i].pc = "returned"

\* C11 (amended): every call of complete spawns the command exactly once
\* with zero arguments and writes the whole serialized prompt to its stdin
\* and closes it; for an empty message list the payload is empty and a
\* Response is returned under the same condition as for any other request:
\* the child closes with exit code 0 or with empty stderr.
C11_OneSpawnWholePromptOnStdin ==
  \A i \in Calls :
    /\ Started(pCalls[i]) =>
         /\ pCalls[i].spawns = 1 /\ pCalls[i].child.args = << >>
         /\ pCalls[i].stdin = Serialized(pCalls[i].request.messages,
                                         Len(pCalls[i].request.messages))
         /\ pCalls[i].stdinEnded
    /\ (Ended(pCalls[i]) /\ pCalls[i].request.messages = << >>) =>
         /\ pCalls[i].stdin = Empty
         /\ pCalls[i].pc = "returned" <=> ResponseCondition(pCalls[i])

C11_Witness ==
  \E i \in Calls :
    /\ pCalls[i].pc = "returned" /\ pCalls[i].request.messages = << >>
    /\ pCalls[i].stdin = Empty /\ pCalls[i].stdinEnded /\ pCalls[i].spawns = 1
    /\ pCalls[i].child.exit = Num(0) /\ pCalls[i].outcome.content = Empty

\* C12 (as stated): the request is serialized as one line "<role>: <content>"
\* per message, in order, joined by newlines; with cat as the wrapped
\* command the Response content contains that line for every message and
\* equals the trimmed prompt.
C12_CatContentHasEveryLine ==
  \A i \in Calls :
    LET messages == pCalls[i].request.messages IN
    /\ Started(pCalls[i]) =>
         pCalls[i].stdin = Serialized(messages, Len(messages))
    /\ (pCalls[i].pc = "returned" /\ pCalls[i].child.echo) =>
         /\ IsTrimOf(pCalls[i].outcome.content, Serialized(messages, Len(messages)))
         /\ \A k \in 1..Len(messages) :
              Contains(pCalls[i].outcome.content, LineOf(messages[k]))

\* C12 (amended): the request is serialized as one line "<role>: <content>"
\* per message, in order, joined by newlines; with cat as the wrapped
\* command the Response content equals the trimmed prompt, and it contains
\* the line of every message when the prompt does not end in whitespace
\* (trailing whitespace of the last line is trimmed away).
C12_CatContentIsTrimmedPrompt ==
  \A i \in Calls :
    LET messages == pCalls[i].request.messages
        prompt == Serialized(messages, Len(messages)) IN
    /\ Started(pCalls[i]) => pCalls[i].stdin = prompt
    /\ (pCalls[i].pc = "returned" /\ pCalls[i].child.echo) =>
         /\ IsTrimOf(pCalls[i].outcome.content, prompt)
         /\ (prompt = Empty \/ prompt[Len(prompt)] \notin {" ", "\n"}) =>
              \A k \in 1..Len(messages) :
                Contains(pCalls[i].outcome.content, LineOf(messages[k]))

C12_Witness ==
  \E i \in Calls :
    /\ pCalls[i].pc = "returned" /\ pCalls[i].child.echo
    /\ pCalls[i].request.messages = <<Msg("user", <<"a">>)>>
    /\ pCalls[i].outcome.content = <<"user", ":", " ", "a">>

\* C13: when the completion does not throw, streamComplete yields exactly
\* two events in order: a content event whose delta content is the content
\* complete returned for that call, with its usage, then a done event, and
\* nothing after it.
C13_StreamYieldsContentThenDone ==
  \A i \in Calls :
    LET call == pCalls[i]
        expected ==
          <<[type |-> "content", delta |-> [content |-> call.outcome.content],
             usage |-> call.outcome.usage],
            [type |-> "done"]>>
    IN
    (call.gen # "none" /\ call.pc = "returned") =>
      /\ Len(call.events) <= 2
      /\ call.events = SubSeq(expected, 1, Len(call.events))
      /\ call.gen = "completed" => call.events = expected

C13_Witness ==
  \E i \in Calls :
    /\ pCalls[i].gen = "completed" /\ Len(pCalls[i].events) = 2
    /\ pCalls[i].events[1].delta.content = <<"a">>
    /\ pCalls[i].child.out = <<" ", "a">>

StreamEnded(call) == call.gen \in {"completed", "threw"}
DoneEvents(call) == {k \in 1..Len(call.events) : call.events[k].type = "done"}

\* C14 (as stated): for every outcome of the underlying process, spawn
\* errors and non-zero exits with stderr included, the event sequence of
\* streamComplete ends with exactly one done event.
C14_EveryStreamEndsWithDone ==
  \A i \in Calls :
    StreamEnded(pCalls[i]) =>
      /\ pCalls[i].events # << >>
      /\ DoneEvents(pCalls[i]) = {Len(pCalls[i].events)}

\* C14 (amended): the event sequence of a streamComplete call whose
\* completion does not throw ends with exactly one done event; when the
\* completion throws (non-zero exit with stderr, spawn error) the stream
\* ends by throwing that error and has delivered no event at all.
C14_StreamEndsWithDoneUnlessThrown ==
  \A i \in Calls :
    /\ pCalls[i].gen = "completed" =>
         /\ pCalls[i].pc = "returned"
         /\ pCalls[i].events # << >>
         /\ DoneEvents(pCalls[i]) = {Len(pCalls[i].events)}
    /\ pCalls[i].gen = "threw" =>
         /\ pCalls[i].pc = "threw" /\ pCalls[i].events = << >>
    /\ (pCalls[i].gen # "none" /\ pCalls[i].pc = "threw") =>
         pCalls[i].gen \in {"running", "threw"}

C14_Witness ==
  \E i \in Calls :
    /\ pCalls[i].gen = "completed"
    /\ pCalls[i].child.exit = Num(1) /\ pCalls[i].child.errText = Empty
    /\ pCalls[i].events[2] = [type |-> "done"]

\* C15: streamComplete delivers no event before the child process has
\* closed; the content event comes after the close event and carries the
\* whole (trimmed) output at once.
C15_NoEventBeforeClose ==
  \A i \in Calls :
    pCalls[i].events # << >> =>
      /\ pCalls[i].child.closed /\ ~pCalls[i].child.fails
      /\ pCalls[i].events[1].type = "content"
      /\ IsTrimOf(pCalls[i].events[1].delta.content, pCalls[i].child.out)
      /\ \A k \in 2..Len(pCalls[i].events) : pCalls[i].events[k].type # "content"

C15_Witness ==
  \E i \in Calls :
    /\ Len(pCalls[i].events) = 1 /\ pCalls[i].child.closed
    /\ pCalls[i].child.nout = 2 /\ pCalls[i].child.nerr = 1
    /\ pCalls[i].events[1].delta.content = <<"a", "a">>

\* The lifecycle state of the adapter: Busy while a call is in flight.
InFlight == {i \in Calls : pCalls[i].pc = "await"}
AdapterState ==
  IF pAdapter.state = "Uninitialized" THEN "Uninitialized"
  ELSE IF InFlight # {} THEN "Busy" ELSE "Initialized"

\* C16: the adapter follows Uninitialized -> Initialized -> Busy ->
\* Initialized; complete and streamComplete spawn the wrapped command only
\* when initialize has completed, and a call made while Uninitialized spawns
\* nothing.
C16_InitializedBeforeCalls ==
  /\ [](\A i \in Calls :
          /\ pCalls[i].spawns >= 1 =>
               pAdapter.state = "Initialized" /\ pAdapter.initPc = "done"
          /\ pCalls[i].pc = "refused" =>
               pCalls[i].spawns = 0 /\ pCalls[i].child = Undef)
  /\ [][\/ AdapterState' = AdapterState
        \/ AdapterState = "Uninitialized" /\ AdapterState' = "Initialized"
        \/ AdapterState = "Initialized" /\ AdapterState' = "Busy"
        \/ AdapterState = "Busy" /\ AdapterState' = "Initialized"]_vars

C16_Witness ==
  /\ pAdapter.initPc = "done" /\ AdapterState = "Initialized"
  /\ \E i \in Calls : pCalls[i].pc = "returned" /\ pCalls[i].spawns = 1

\* C17: initialize runs the command once with the single argument --version
\* and completes successfully for every exit code of the probe; the probe's
\* outcome does not change whether the adapter becomes Initialized.
C17_ProbeExitCodeIrrelevant ==
  /\ pAdapter.initPc # "idle" =>
       pAdapter.probeSpawns = 1 /\ pAdapter.probe.args = <<"--version">>
  /\ (pAdapter.initPc # "idle" /\ ~pAdapter.probe.fails /\ pAdapter.probe.closed) =>
       /\ pAdapter.promise = "resolved"
       /\ pAdapter.initPc \in {"await", "done"}
       /\ pAdapter.initPc = "done" => pAdapter.state = "Initialized"

C17_Witness ==
  /\ pAdapter.initPc = "done" /\ pAdapter.state = "Initialized"
  /\ pAdapter.probe.exit = Num(1) /\ pAdapter.probeSpawns = 1

InitEnded == pAdapter.initPc \in {"done", "failed"}

C19_ResponseIdsUnique ==
  \A i, j \in Calls :
    (i # j /\ pCalls[i].pc = "returned" /\ pCalls[j].pc = "returned")
      => pCalls[i].outcome.id # pCalls[j].outcome.id

WellFormedResponse(r) ==
  /\ DOMAIN r = {"id", "model", "provider", "content", "usage"}
  /\ r.id[1] = "cli-" /\ r.model.t = "str" /\ r.provider = "codex-cli"
  /\ r.usage = [promptTokens |-> 0, completionTokens |-> 0, totalTokens |-> 0]

\* C20 (as stated): every call of complete that ends either returns a
\* well-formed Response or fails with the typed error built from the tool's
\* stderr, also when the child emits a spawn error instead of closing.
C20_ResponseOrToolError ==
  \A i \in Calls :
    Ended(pCalls[i]) =>
      \/ pCalls[i].pc = "returned" /\ WellFormedResponse(pCalls[i].outcome)
      \/ pCalls[i].pc = "threw" /\ pCalls[i].outcome.kind = "Error"

\* C20 (amended): every call of complete that ends does so in exactly one of
\* three ways: it returns a well-formed Response, it fails with the error
\* built from the tool's stderr (child closed on a non-zero exit with
\* stderr), or, when the child emits a spawn error, it fails with that raw
\* spawn error, which is not an ExternalToolError.
C20_ResponseToolErrorOrSpawnError ==
  \A i \in Calls :
    Ended(pCalls[i]) =>
      /\ pCalls[i].child.fails =>
           /\ pCalls[i].pc = "threw"
           /\ pCalls[i].outcome = [kind |-> "spawn", err |-> pCalls[i].child.err]
      /\ ~pCalls[i].child.fails =>
           \/ pCalls[i].pc = "returned" /\ WellFormedResponse(pCalls[i].outcome)
           \/ /\ pCalls[i].pc = "threw" /\ pCalls[i].outcome.kind = "Error"
              /\ pCalls[i].child.errText # Empty

C20_Witness ==
  \E i \in Calls :
    /\ pCalls[i].pc = "threw" /\ pCalls[i].child.errored /\ pCalls[i].child.closed
    /\ pCalls[i].outcome.kind = "spawn"
    /\ pCalls[i].outcome.err.code = Str("ENOENT")

\* The concatenation of chunks, in order.
RECURSIVE Concatenation(_)
Concatenation(chunks) ==
  IF chunks = << >> THEN Empty
  ELSE chunks[1] \o Concatenation(Tail(chunks))

\* C22 as stated: the result of runCommand is produced only after the child's
\* streams are drained, and the returned stdout and stderr are the
\* concatenation, in arrival order, of every chunk the attempt's child emitted.
C22_ResultEqualsAllChunks ==
  rcPc = "done" =>
    /\ Last(rcChildren).closed
    /\ rcReturned.stdout = Concatenation(Last(rcChildren).outChunks)
    /\ rcReturned.stderr = Concatenation(Last(rcChildren).errChunks)

\* C22 amended: a result built by the close handler is produced only after
\* the child closed, and its stdout and stderr are the concatenation, in
\* arrival order, of every chunk the child emitted, nothing truncated or
\* dropped, and no chunk arrives afterwards; a child that fails to spawn
\* emits no chunk and its result has stdout empty and stderr = the error's
\* message.
C22_OutputFullyDrained ==
  /\ \A i \in 1..Spawned :
       rcChildren[i].settled =>
         /\ rcChildren[i].closed \/ rcChildren[i].errored
         /\ rcChildren[i].result.stdout = Concatenation(rcChildren[i].outChunks)
         /\ ~rcChildren[i].fails =>
              rcChildren[i].result.stderr = Concatenation(rcChildren[i].errChunks)
         /\ rcChildren[i].fails =>
              /\ rcChildren[i].outChunks = << >> /\ rcChildren[i].errChunks = << >>
              /\ rcChildren[i].result.stderr = ErrMessage(rcChildren[i].err.code)
  /\ rcPc = "done" =>
       /\ rcReturned.stdout = Concatenation(Last(rcChildren).outChunks)
       /\ ~Last(rcChildren).fails =>
            /\ Last(rcChildren).closed
            /\ rcReturned.stderr = Concatenation(Last(rcChildren).errChunks)

C22_Witness ==
  /\ rcPc = "done" /\ ~Last(rcChildren).fails
  /\ Last(rcChildren).outChunks = <<<<"a">>, <<" ">>>>
  /\ Last(rcChildren).errChunks = <<<<" ">>, <<"a">>>>
  /\ rcReturned.stdout = <<"a", " ">> /\ rcReturned.stderr = <<" ", "a">>

\* C26: runCommand stops at the first attempt that exits with code 0: that
\* attempt is the last spawn and its result is returned with success = true,
\* also after earlier attempts failed with retryable errors; the returned
\* result is always the result of the last spawn and holds none of the
\* output of earlier attempts.
C26_StopsAtFirstSuccess ==
  /\ \A i \in 1..Spawned :
       (~rcChildren[i].fails /\ rcChildren[i].exit = Num(0)) =>
         /\ i = Spawned
         /\ rcPc \in {"await", "done"}
         /\ Last(rcTrace).op = "spawn"
         /\ rcPc = "done" => rcReturned.success = TRUE
  /\ rcPc = "done" =>
       /\ rcReturned = Last(rcChildren).result
       /\ rcReturned.success => Last(rcChildren).exit = Num(0)
       /\ ~Last(rcChildren).fails =>
            /\ rcReturned.stdout = Last(rcChildren).stdout
            /\ rcReturned.stderr = Last(rcChildren).stderr

C26_Witness ==
  /\ rcPc = "done" /\ Spawned = 2 /\ rcRetries = 2
  /\ rcChildren[1].errored /\ rcChildren[1].result.stderr # Empty
  /\ Last(rcChildren).exit = Num(0)
  /\ rcReturned.success /\ rcReturned.stdout = <<"a">> /\ rcReturned.stderr = Empty

\* C28: when every spawned child eventually emits close or error and every
\* back-off timer fires, a started runCommand call eventually returns, for
\* every retries >= 0; and it returns only through its children's events:
\* it never returns while the child of an attempt has neither closed nor
\* emitted error.
C28_ReturnsIffChildrenSettle ==
  /\ (rcPc # "idle") ~> (rcPc = "done")
  /\ [](rcPc = "done" =>
          \A i \in 1..Spawned : rcChildren[i].closed \/ rcChildren[i].errored)
  /\ [][(rcPc = "await" /\ ~Last(rcChildren).closed /\ ~Last(rcChildren).errored)
          => rcPc' = "await"]_vars

C28_Witness ==
  /\ rcPc = "done" /\ rcRetries = 2 /\ Spawned = 3
  /\ Len(rcTrace) = 5
  /\ \A i \in 1..Spawned : rcChildren[i].errored

\* C21: complete calls in flight at the same time do not affect each other:
\* in every interleaving of their data, close and error events each call
\* spawns its own child once, its promise is settled by an event of its own
\* child only, and its outcome is the one its own child's stdout, stderr and
\* exit code give when the call runs alone.
C21_ConcurrentCallsIsolated ==
  \A i \in Calls :
    LET call == pCalls[i] IN
      /\ Started(call) =>
           /\ call.spawns = 1
           /\ call.promise # "pending" => call.child.closed \/ call.child.errored
      /\ Ended(call) =>
           IF call.child.fails
             THEN call.pc = "threw" /\ call.outcome = [kind |-> "spawn", err |-> call.child.err]
             ELSE IF call.child.exit = Num(0) \/ call.child.errText = Empty
               THEN /\ call.pc = "returned"
                    /\ IsTrimOf(call.outcome.content, call.child.out)
               ELSE /\ call.pc = "threw" /\ call.outcome.kind = "Error"
                    /\ IsTrimOf(call.outcome.message, call.child.errText)

C21_Witness ==
  /\ pCalls[1].pc = "threw" /\ pCalls[1].child.exit = Num(1)
  /\ pCalls[1].child.out = <<"a">> /\ pCalls[1].outcome.message = <<"a">>
  /\ pCalls[2].pc = "returned" /\ pCalls[2].child.exit = Num(0)
  /\ pCalls[2].child.errText = <<"a">> /\ pCalls[2].outcome.content = <<"a", "a">>

\* C27: every attempt of runCommand and every call of complete settles
\* exactly once, by the first of its child's error and close events: a
\* settled outcome never changes, and when a spawn error is followed by the
\* close of the same child the outcome stays the one of the error event (the
\* failed result with errorType for runCommand, the rejection with the spawn
\* error for complete).
C27_SettlesOnceByFirstEvent ==
  /\ [](\A k \in 1..Spawned :
          LET c == rcChildren[k] IN
            /\ c.settled <=> (c.errored \/ c.closed)
            /\ c.errored =>
                 /\ ~c.result.success /\ c.result.errorType # Undef
                 /\ c.result.stdout = Empty /\ c.result.stderr = c.err.message
            /\ (c.closed /\ ~c.errored) =>
                 /\ c.result.errorType = Undef
                 /\ (c.result.success <=> c.exit = Num(0)))
  /\ [](\A i \in Calls :
          Started(pCalls[i]) =>
            LET call == pCalls[i] IN
              /\ call.promise # "pending" <=> (call.child.errored \/ call.child.closed)
              /\ call.child.errored =>
                   /\ call.promise = "rejected"
                   /\ call.value = [kind |-> "spawn", err |-> call.child.err]
              /\ (call.child.closed /\ ~call.child.errored /\ call.promise = "rejected") =>
                   call.value.kind = "Error")
  /\ [][\A k \in 1..Spawned :
          rcChildren[k].settled =>
            /\ rcChildren'[k].settled
            /\ rcChildren'[k].result = rcChildren[k].result]_vars
  /\ [][\A i \in Calls :
          (Started(pCalls[i]) /\ pCalls[i].promise # "pending") =>
            /\ pCalls'[i].promise = pCalls[i].promise
            /\ pCalls'[i].value = pCalls[i].value]_vars

C27_Witness ==
  /\ rcPc = "done" /\ Last(rcChildren).errored /\ Last(rcChildren).closed
  /\ rcReturned.errorType = Str("filesystem")
  /\ pCalls[1].pc = "threw" /\ pCalls[1].child.errored /\ pCalls[1].child.closed
  /\ pCalls[1].outcome = [kind |-> "spawn", err |-> SettleSpawnErr]

\* C23: doHealthCheck returns ok = true in every adapter state - before
\* initialize, after it, while a complete call is in flight and after a
\* complete call failed - and it spawns no process and changes nothing of
\* the adapter or of its calls.
C23_HealthCheckAlwaysOk ==
  /\ [](pHealth # Undef => pHealth.ok = TRUE)
  /\ [][pHealth' # pHealth =>
          /\ pAdapter' = pAdapter /\ pCalls' = pCalls
          /\ pHealth'.at = Situation]_vars

C23_Witness ==
  /\ pHealth # Undef /\ pHealth.ok
  /\ pHealth.at = [state |-> "Initialized", inFlight |-> TRUE, failed |-> FALSE]
  /\ pCalls[1].pc = "threw" /\ pCalls[1].spawns = 1 /\ pAdapter.probeSpawns = 1

\* What the parseFlags claims say of a list of tokens.  A plain long flag is
\* "--name" without '='; a flag token starts with '-' and is longer than "-".
IsLongPlain(tok) == Len(tok) >= 2 /\ tok[1] = "-" /\ tok[2] = "-" /\ ~Includes(tok, "=")
IsFlagToken(tok) == Len(tok) > 1 /\ tok[1] = "-"
NameOf(tok) == SubSeq(tok, 3, Len(tok))
FlagValue(result, name) ==
  (CHOOSE e \in {result.flags[k] : k \in 1..Len(result.flags)} : e.key = name).value
\* The tokens a long flag takes as its value: as the claim states them, and
\* as amended.
NoLeadingDash(tok) == tok = << >> \/ tok[1] # "-"
NoLeadingDashOrNegativeNumber(tok) ==
  /\ tok # << >>
  /\ tok[1] # "-" \/ (Len(tok) >= 2 /\ IsDigit(tok[2]))
\* The value a token stands for: the number it denotes for a declared number
\* flag, the token itself otherwise.
Typed(options, name, tok) ==
  IF Includes(options.number, name) /\ JsNumber(tok) # NaN THEN JsNumber(tok) ELSE Text(tok)
LongFlagsAndPositionals(IsValue(_)) ==
  pfCall.result # Undef =>
    LET args == pfCall.args
        Consumed(i) == i > 1 /\ IsLongPlain(args[i - 1]) /\ IsValue(args[i])
        IsPositional(i) == ~Consumed(i) /\ ~IsFlagToken(args[i])
        positions == SelectSeq([i \in 1..Len(args) |-> i], IsPositional)
    IN /\ pfCall.result.args = [k \in 1..Len(positions) |-> args[positions[k]]]
       /\ \A i \in 1..Len(args) :
            (/\ IsLongPlain(args[i])
             /\ \A j \in (i + 1)..Len(args) :
                  ~(IsFlagToken(args[j]) /\ Contains(args[j], NameOf(args[i]))))
              => FlagValue(pfCall.result, NameOf(args[i])) =
                   IF i < Len(args) /\ IsValue(args[i + 1])
                     THEN Typed(pfCall.options, NameOf(args[i]), args[i + 1])
                     ELSE True

\* C24 as stated: a long flag --name followed by a token that does not start
\* with '-' takes that token as its value and the token is no positional
\* argument; a long flag with no such following token gets the value true;
\* the tokens that are neither flags nor taken values are the positional
\* arguments, in their original order.
C24_ValueIsNextTokenWithoutDash == LongFlagsAndPositionals(NoLeadingDash)

\* C24 amended: the token a long flag --name takes as its value is a
\* following non-empty token that does not start with '-' or that is '-'
\* followed by a digit (a negative number); with no such following token the
\* flag gets the value true; the tokens that are neither flags nor taken
\* values are the positional arguments, in their original order.
C24_ValueIsNextTokenOrNegativeNumber ==
  LongFlagsAndPositionals(NoLeadingDashOrNegativeNumber)

C24_Witness ==
  /\ pfCall.args = <<<<"v">>, <<"-", "-", "p">>, <<"-", "5">>>>
  /\ pfCall.options = NoOptions
  /\ pfCall.result # Undef
  /\ pfCall.result.flags = <<[key |-> <<"p">>, value |-> Text(<<"-", "5">>)]>>
  /\ pfCall.result.args = <<<<"v">>>>

\* C25: for every flag name and every non-empty value that does not start
\* with '-', "--name=value" and "--name value" give the same flags,
\* positional arguments, unknown flags and errors, the typed coercion of
\* number and string flags included.
C25_EqualsFormSameAsTwoTokens ==
  pfCall.result # Undef =>
    \A k \in 1..Len(pfCall.args) :
      LET tok == pfCall.args[k]
          eq == CHOOSE n \in 3..Len(tok) : tok[n] = "=" /\ \A j \in 3..(n - 1) : tok[j] # "="
      IN (/\ StartsWith(tok, <<"-", "-">>) /\ Includes(tok, "=")
          /\ eq < Len(tok) /\ tok[eq + 1] # "-")
           => parseFlags(
                SubSeq(pfCall.args, 1, k - 1)
                  \o <<SubSeq(tok, 1, eq - 1), SubSeq(tok, eq + 1, Len(tok))>>
                  \o SubSeq(pfCall.args, k + 1, Len(pfCall.args)),
                pfCall.options) = pfCall.result

C25_Witness ==
  /\ pfCall.args = <<<<"-", "-", "p", "=", "5">>, <<"-", "-", "n", "=", "v", "=", "5">>>>
  /\ pfCall.options = [NoOptions EXCEPT !.number = <<<<"p">>>>, !.string = <<<<"n">>>>]
  /\ pfCall.result # Undef
  /\ pfCall.result.flags = <<[key |-> <<"p">>, value |-> Num(5)],
                             [key |-> <<"n">>, value |-> Text(<<"v", "=", "5">>)]>>
  /\ pfCall.result.errors = << >>

\* C29: retry calls fn at most maxAttempts times and, with maxAttempts >= 1,
\* at least once; it returns the value of the first call that succeeds and
\* calls fn no more; when all maxAttempts calls fail it rethrows the error
\* of the last one; after the k-th failed call it sleeps delay * k exactly
\* when another call follows.
C29_RetryContract ==
  LET call == rtCall
      FnEntries == {k \in 1..Len(call.log) : call.log[k].op = "fn"}
  IN call.pc # "idle" =>
       /\ call.calls <= call.maxAttempts
       /\ call.maxAttempts >= 1 => call.calls >= 1
       /\ \A k \in 1..Len(call.log) :
            IF k % 2 = 1
              THEN /\ call.log[k].op = "fn"
                   /\ call.log[k].threw \/ (k = Len(call.log) /\ call.pc = "returned")
              ELSE /\ call.log[k] = [op |-> "sleep", ms |-> call.delay * (k \div 2)]
                   /\ k \div 2 < call.maxAttempts
                   /\ call.calls > k \div 2 \/ call.pc = "sleeping"
       /\ call.calls = Cardinality(FnEntries) + (IF call.pc = "calling" THEN 1 ELSE 0)
       /\ (call.pc = "returned" /\ call.maxAttempts >= 1) =>
            /\ ~Last(call.log).threw
            /\ call.outcome = [value |-> Last(call.log).value]
       /\ call.pc = "threw" =>
            /\ call.calls = call.maxAttempts
            /\ Last(call.log).op = "fn" /\ Last(call.log).threw
            /\ call.outcome = [error |-> Last(call.log).value]
       /\ call.pc = "sleeping" => Last(call.log).op = "sleep"

C29_Witness ==
  /\ rtCall.pc = "threw" /\ rtCall.maxAttempts = 3 /\ rtCall.calls = 3
  /\ rtCall.delay = 250
  /\ rtCall.log = <<[op |-> "fn", threw |-> TRUE, value |-> "e1"],
                    [op |-> "sleep", ms |-> 250],
                    [op |-> "fn", threw |-> TRUE, value |-> "e1"],
                    [op |-> "sleep", ms |-> 500],
                    [op |-> "fn", threw |-> TRUE, value |-> "e2"]>>
  /\ rtCall.outcome = [error |-> "e2"]

\* The outputs whose document has result.content, and the tool results
\* their first content text holds, if it is JSON.
WithContent ==
  {"{result:{content:[]}}", "{result:{content:[{}]}}",
   "{result:{content:[{text:'oops'}]}}",
   "{result:{content:[{text:'{success:false}'}]}}",
   "{result:{content:[{text:' {success:true,id:1}'}]}}"}
OwnResult(doc) ==
  CASE doc = "{result:{content:[{text:'{success:false}'}]}}" -> [success |-> FALSE]
    [] doc = "{result:{content:[{text:' {success:true,id:1}'}]}}" -> [success |-> TRUE, id |-> 1]
    [] OTHER -> Undef

====
